---- MODULE Spec2Model ----
(***************************************************************************)
(* A model of the pharmacy order orchestrator: the session / preview       *)
(* stores kept by OrchestratorAgent (backend/agents/orchestrator_agent.py),*)
(* the deterministic rule evaluator (backend/agents/safety_agent.py) and   *)
(* the order endpoints of backend/main.py.                                 *)
(*                                                                         *)
(* Money is counted in mills (1/1000 of a currency unit): 0.15 is 150.     *)
(* The fulfillment agent, the data service and the schemas are not part of *)
(* the source tree; what the model needs of them is modelled from the      *)
(* written specification.                                                  *)
(***************************************************************************)
EXTENDS Integers, Sequences, FiniteSets, TLC

VARIABLES
    pending_previews,   \* OrchestratorAgent.pending_previews: preview id -> preview
    session_contexts,   \* OrchestratorAgent.session_contexts: session key -> preview id
    next_preview,       \* how many preview ids _generate_preview_id has minted
    orders,             \* the fulfillment agent's order store: order id -> order
    next_order,         \* how many order ids create_order has minted
    stock,              \* the data service's stock level of each medicine id
    order_history,      \* the data service's order-history records (add_order)
    background_tasks,   \* warehouse webhook tasks scheduled by confirm_order
    api_calls,          \* how many order-endpoint requests have been served
    safety_log,         \* the rule-evaluator calls made while serving the last request
    in_flight,          \* chat requests that have arrived and not yet been handled
    handoff,            \* the hand-off chain of the /api/chat turn in progress
    conversation_histories, \* OrchestratorAgent.conversation_histories: session key -> messages
    request,            \* the request (or background task) served last
    response            \* the reply to it

vars == <<pending_previews, session_contexts, next_preview, orders, next_order,
          stock, order_history, background_tasks, api_calls, safety_log, in_flight,
          handoff, conversation_histories, request, response>>

-----------------------------------------------------------------------------
(* Bounds of the model. *)

MaxPreviews == 2

MaxOrders == 2

MaxApiCalls == 2

MaxInFlight == 2

\* Collaborator invocations followed within one /api/chat turn
MaxHops == 5

\* Orders placed through /api/chat
MaxRouterOrders == 1

\* Initial stock levels of the catalog: one medicine short of the default
\* order quantity, the others well above it.
LowStock == 8

HighStock == 40

-----------------------------------------------------------------------------
(* Generic helpers. *)

Min(a, b) == IF a < b THEN a ELSE b

\* dict without key k (Python: del d[k])
Del(d, k) == [x \in DOMAIN d \ {k} |-> d[x]]

\* dict with d[k] = v (Python: d[k] = v)
Put(d, k, v) == [x \in DOMAIN d \cup {k} |-> IF x = k THEN v ELSE d[x]]

RECURSIVE SumSeq(_)
SumSeq(s) == IF s = <<>> THEN 0 ELSE Head(s) + SumSeq(Tail(s))

\* str.lower() on a string kept as a sequence of characters
UpperCase == <<"A", "B", "C", "D", "E", "F", "G", "H", "I", "J", "K", "L", "M",
              "N", "O", "P", "Q", "R", "S", "T", "U", "V", "W", "X", "Y", "Z">>

LowerCase == <<"a", "b", "c", "d", "e", "f", "g", "h", "i", "j", "k", "l", "m",
              "n", "o", "p", "q", "r", "s", "t", "u", "v", "w", "x", "y", "z">>

LowerChar(c) ==
    IF \E i \in DOMAIN UpperCase : UpperCase[i] = c
    THEN LowerCase[CHOOSE i \in DOMAIN UpperCase : UpperCase[i] = c]
    ELSE c

Lower(s) == [i \in DOMAIN s |-> LowerChar(s[i])]

\* Python: a in b, for strings kept as sequences of characters
IsSubstring(a, b) ==
    \E i \in 0..Len(b) :
        /\ i + Len(a) <= Len(b)
        /\ \A j \in 1..Len(a) : b[i + j] = a[j]

\* Python round(x, 2) of an amount in mills: to the nearest cent, a tie to
\* the even cent
Round2(x) ==
    LET q == x \div 10
        r == x % 10
    IN  IF r < 5 THEN q * 10
        ELSE IF r > 5 THEN (q + 1) * 10
        ELSE IF q % 2 = 0 THEN q * 10 ELSE (q + 1) * 10

-----------------------------------------------------------------------------
(* The catalog and the patients held by the data service. *)

Patients == {"P1", "P2"}

Catalog ==
    << [medicine_id |-> "M1", medicine_name |-> "Paracetamol",
        strength |-> <<"5", "m", "g">>, max_quantity_per_order |-> 30,
        prescription_required |-> FALSE, controlled_substance |-> FALSE,
        discontinued |-> FALSE],
       [medicine_id |-> "M2", medicine_name |-> "Paracetamol",
        strength |-> <<"6", "m", "g">>, max_quantity_per_order |-> 30,
        prescription_required |-> FALSE, controlled_substance |-> FALSE,
        discontinued |-> TRUE],
       [medicine_id |-> "M3", medicine_name |-> "Cetirizine",
        strength |-> <<"1", "m", "g">>, max_quantity_per_order |-> 30,
        prescription_required |-> TRUE, controlled_substance |-> FALSE,
        discontinued |-> FALSE] >>

MedicineIds == {Catalog[i].medicine_id : i \in DOMAIN Catalog}

InitialStock == [m \in MedicineIds |-> IF m = "M1" THEN LowStock ELSE HighStock]

\* data_service.search_medicine(name): the catalog's medicines of that name,
\* each with its current stock level
search_medicine(stk, name) ==
    LET hits == SelectSeq(Catalog, LAMBDA m : m.medicine_name = name)
    IN  [i \in DOMAIN hits |->
            [medicine_id |-> hits[i].medicine_id,
             medicine_name |-> hits[i].medicine_name,
             strength |-> hits[i].strength,
             max_quantity_per_order |-> hits[i].max_quantity_per_order,
             prescription_required |-> hits[i].prescription_required,
             controlled_substance |-> hits[i].controlled_substance,
             discontinued |-> hits[i].discontinued,
             stock_level |-> stk[hits[i].medicine_id]]]

\* data_service.update_stock(medicine_id, quantity): the ordered quantity is
\* subtracted from the stock level
update_stock(stk, medicine_id, quantity) ==
    IF medicine_id \in DOMAIN stk
    THEN [stk EXCEPT ![medicine_id] = @ - quantity]
    ELSE stk

-----------------------------------------------------------------------------
(* The rule evaluator: SafetyAgent._perform_safety_checks. *)

DefaultQuantity == 30

\* SafetyStart with the reasons of the evaluation logged before carried over
SafetyStartCarriedOver ==
    [reasons |-> IF safety_log # <<>> THEN safety_log[1].result.reasons ELSE <<>>,
     blocked_items |-> <<>>, requires_prescription |-> FALSE,
     allowed_quantity |-> <<>>, requires_followup |-> FALSE]

\* The accumulator of the loop over matched_medicines; allowed_quantity is
\* <<>> for None and <<n>> for the number n.
SafetyStart ==
    [reasons |-> <<>>, blocked_items |-> <<>>, requires_prescription |-> FALSE,
     allowed_quantity |-> <<>>, requires_followup |-> FALSE]

\* Python truthiness of allowed_quantity: None and 0 are false
Truthy(aq) == aq # <<>> /\ aq[1] # 0

\* SafetyStep for which a blocked medicine still caps the order's quantity
SafetyStepCapsBlocked(acc, entities, medicine, i, has_prescription) ==
    IF medicine.discontinued \/ medicine.stock_level = 0
    THEN [acc EXCEPT !.blocked_items = Append(@, medicine.medicine_name),
                     !.reasons = Append(@, <<"out_of_stock", medicine.medicine_name>>),
                     !.allowed_quantity = <<medicine.stock_level>>]
    ELSE acc

\* One iteration of the loop, for matched medicine i
SafetyStep(acc, entities, medicine, i, has_prescription) ==
    LET requested_qty ==
            IF i <= Len(entities) /\ entities[i].quantity > 0
            THEN entities[i].quantity ELSE DefaultQuantity
        name == medicine.medicine_name
    IN  IF medicine.discontinued
        THEN [acc EXCEPT !.blocked_items = Append(@, name),
                         !.reasons = Append(@, <<"discontinued", name>>)]
        ELSE
        LET a1 == IF medicine.prescription_required
                  THEN [acc EXCEPT
                          !.requires_prescription = TRUE,
                          !.reasons = IF ~has_prescription
                                      THEN Append(@, <<"requires_prescription", name>>)
                                      ELSE @]
                  ELSE acc
            a2 == IF medicine.controlled_substance
                  THEN [a1 EXCEPT !.reasons = Append(@, <<"controlled_substance", name>>),
                                  !.requires_followup = TRUE]
                  ELSE a1
        IN  IF medicine.stock_level = 0
            THEN [a2 EXCEPT !.blocked_items = Append(@, name),
                            !.reasons = Append(@, <<"out_of_stock", name>>)]
            ELSE
            LET a3 == IF medicine.stock_level < requested_qty
                      THEN LET cap == Min(medicine.stock_level,
                                          medicine.max_quantity_per_order)
                           IN  [a2 EXCEPT !.allowed_quantity = <<cap>>,
                                          !.reasons = Append(@, <<"limited_stock", name, cap>>)]
                      ELSE a2
            IN  IF requested_qty > medicine.max_quantity_per_order
                THEN [a3 EXCEPT
                        !.allowed_quantity =
                            IF ~Truthy(@) THEN <<medicine.max_quantity_per_order>> ELSE @,
                        !.reasons = Append(@, <<"max_quantity", name,
                                                medicine.max_quantity_per_order>>)]
                ELSE a3

RECURSIVE SafetyLoop(_, _, _, _, _)
SafetyLoop(acc, entities, matched_medicines, i, has_prescription) ==
    IF i > Len(matched_medicines) THEN acc
    ELSE SafetyLoop(SafetyStep(acc, entities, matched_medicines[i], i, has_prescription),
                    entities, matched_medicines, i + 1, has_prescription)

\* Decide that rejects as soon as one item is blocked
DecideRejectsAnyBlocked(acc, matched_medicines, has_prescription) ==
    IF acc.blocked_items # <<>> THEN "REJECT"
    ELSE IF acc.requires_prescription /\ ~has_prescription THEN "CONDITIONAL"
    ELSE IF acc.requires_followup \/ Truthy(acc.allowed_quantity) THEN "CONDITIONAL"
    ELSE "APPROVE"

\* Lines 125-133: the decision
Decide(acc, matched_medicines, has_prescription) ==
    IF acc.blocked_items # <<>> /\ Len(acc.blocked_items) = Len(matched_medicines)
    THEN "REJECT"
    ELSE IF acc.blocked_items # <<>>
            \/ (acc.requires_prescription /\ ~has_prescription)
    THEN "CONDITIONAL"
    ELSE IF acc.requires_followup \/ Truthy(acc.allowed_quantity)
    THEN "CONDITIONAL"
    ELSE "APPROVE"

perform_safety_checks(entities, matched_medicines, has_prescription) ==
    LET acc == SafetyLoop(SafetyStart, entities, matched_medicines, 1, has_prescription)
        decision == Decide(acc, matched_medicines, has_prescription)
    IN  [decision |-> decision,
         reasons |-> IF decision = "APPROVE" /\ acc.reasons = <<>>
                     THEN <<<<"all_checks_passed">>>> ELSE acc.reasons,
         allowed_quantity |-> acc.allowed_quantity,
         requires_followup |-> acc.requires_followup,
         requires_prescription |-> acc.requires_prescription,
         blocked_items |-> acc.blocked_items]

\* SafetyAgent.evaluate: the checks are performed on the arguments alone; the
\* call and its result are noted in the log of the request being served, and
\* no store is written
evaluate(st, entities, matched_medicines, has_prescription) ==
    [st EXCEPT !.safety_log =
        Append(@, [entities |-> entities,
                   matched_medicines |-> matched_medicines,
                   has_prescription |-> has_prescription,
                   result |-> perform_safety_checks(entities, matched_medicines,
                                                    has_prescription)])]

-----------------------------------------------------------------------------
(* The fulfillment agent's order store and lifecycle log. *)

OrderStatus ==
    {"PENDING", "VALIDATED", "CONFIRMED", "PROCESSING", "PREPARING", "SHIPPED",
     "COMPLETED", "CANCELLED"}

\* fulfillment_agent.create_order: a new order in status PENDING holding a
\* copy of the items, its total the rounded sum of unit price times quantity
create_order(ords, order_id, patient_id, items) ==
    Put(ords, order_id,
        [order_id |-> order_id,
         patient_id |-> patient_id,
         items |-> items,
         total_amount |->
            Round2(SumSeq([i \in DOMAIN items |-> items[i].unit_price * items[i].quantity])),
         status |-> "PENDING",
         events |-> <<"PENDING">>])

get_order(ords, order_id) ==
    IF order_id \in DOMAIN ords THEN <<ords[order_id]>> ELSE <<>>

\* fulfillment_agent.update_order_status: the status is set and the transition
\* is appended to the order's event log
update_order_status(ords, order_id, status) ==
    IF order_id \in DOMAIN ords
    THEN [ords EXCEPT ![order_id].status = status,
                      ![order_id].events = Append(@, status)]
    ELSE ords

\* fulfillment_agent.record_*: a side event is appended to the event log; the
\* status does not change
record_event(ords, order_id, event) ==
    IF order_id \in DOMAIN ords
    THEN [ords EXCEPT ![order_id].events = Append(@, event)]
    ELSE ords

-----------------------------------------------------------------------------
(* The orchestrator's handlers. Each takes the stores as a record st and    *)
(* returns the stores after the handler, with its reply in st.response.    *)

Reply(message) ==
    [message |-> message, detail |-> <<>>, requires_confirmation |-> FALSE,
     order_preview |-> <<>>, order |-> <<>>]

\* A reply whose text also carries detail: the reasons of a rejection, the
\* medicine name that was not found
ReplyWith(message, detail) == [Reply(message) EXCEPT !.detail = detail]

price_map ==
    [n \in {"Paracetamol", "Metformin", "Atorvastatin", "Lisinopril", "Amlodipine",
            "Omeprazole", "Amoxicillin", "Ibuprofen", "Aspirin"} |->
        CASE n = "Paracetamol" -> 150
          [] n = "Metformin" -> 200
          [] n = "Atorvastatin" -> 850
          [] n = "Lisinopril" -> 550
          [] n = "Amlodipine" -> 650
          [] n = "Omeprazole" -> 400
          [] n = "Amoxicillin" -> 350
          [] n = "Ibuprofen" -> 200
          [] n = "Aspirin" -> 100]

DefaultPrice == 500

\* UnitPrice with the price table ignored
UnitPriceDefaultOnly(medicine_name) == DefaultPrice

\* price_map.get(item.medicine_name, 0.50)
UnitPrice(medicine_name) ==
    IF medicine_name \in DOMAIN price_map THEN price_map[medicine_name] ELSE DefaultPrice

\* BestMatch that takes the first search result whatever the dosage
BestMatchFirstResult(stk, entity) ==
    IF search_medicine(stk, entity.medicine) = <<>> THEN <<>>
    ELSE <<search_medicine(stk, entity.medicine)[1]>>

\* Step 2 of _handle_order, for one entity: the first search result whose
\* strength contains the dosage, else the first result; nothing when the
\* search returns nothing
BestMatch(stk, entity) ==
    LET search_results == search_medicine(stk, entity.medicine)
        fits == {i \in DOMAIN search_results :
                    entity.dosage = <<>>
                    \/ IsSubstring(Lower(entity.dosage), Lower(search_results[i].strength))}
    IN  IF search_results = <<>> THEN <<>>
        ELSE IF fits # {}
        THEN <<search_results[CHOOSE i \in fits : \A j \in fits : i <= j]>>
        ELSE <<search_results[1]>>

RECURSIVE MatchMedicines(_, _)
MatchMedicines(stk, entities) ==
    IF entities = <<>> THEN <<>>
    ELSE BestMatch(stk, Head(entities)) \o MatchMedicines(stk, Tail(entities))

\* Step 4 of _handle_order: one item per entity that has a matched medicine
\* at its own position
BuildItems(entities, matched_medicines, safety_result) ==
    LET n == Min(Len(entities), Len(matched_medicines))
    IN  [i \in 1..n |->
            LET med == matched_medicines[i]
                q0 == IF entities[i].quantity > 0 THEN entities[i].quantity
                      ELSE DefaultQuantity
                quantity == IF Truthy(safety_result.allowed_quantity)
                            THEN Min(q0, safety_result.allowed_quantity[1])
                            ELSE q0
            IN  [medicine_id |-> med.medicine_id,
                 medicine_name |-> med.medicine_name,
                 strength |-> med.strength,
                 quantity |-> quantity,
                 unit_price |-> UnitPrice(med.medicine_name),
                 prescription_required |-> med.prescription_required]]

\* subtotal and round(subtotal, 2)
PreviewTotal(items) ==
    Round2(SumSeq([i \in DOMAIN items |-> items[i].unit_price * items[i].quantity]))

\* StorePreview with the session binding forgotten
StorePreviewUnbound(st, session_id, preview) ==
    [st EXCEPT !.pending_previews = Put(@, preview.preview_id, preview),
               !.next_preview = @ + 1]

\* StorePreview with the stock of the first item reserved at once
StorePreviewReservingStock(st, session_id, preview) ==
    [st EXCEPT !.pending_previews = Put(@, preview.preview_id, preview),
               !.session_contexts = Put(@, session_id, preview.preview_id),
               !.next_preview = @ + 1,
               !.stock = update_stock(@, preview.items[1].medicine_id,
                                      preview.items[1].quantity)]

\* The preview is stored and bound to the session
StorePreview(st, session_id, preview) ==
    [st EXCEPT !.pending_previews = Put(@, preview.preview_id, preview),
               !.session_contexts = Put(@, session_id, preview.preview_id),
               !.next_preview = @ + 1]

\* MedicineNotFound naming the last entity
MedicineNotFoundNamesLast(st, entities) ==
    [st EXCEPT !.response =
        ReplyWith("medicine_not_found", <<entities[Len(entities)].medicine>>)]

\* Lines 253-257: no entity has a catalog match; the reply names the first
MedicineNotFound(st, entities) ==
    [st EXCEPT !.response = ReplyWith("medicine_not_found", <<entities[1].medicine>>)]

\* RejectOrder with the rejection downgraded to a request for confirmation
RejectOrderDowngraded(st, safety_result) ==
    [st EXCEPT !.response =
        [ReplyWith("rejected", safety_result.reasons) EXCEPT !.requires_confirmation = TRUE]]

\* Lines 277-282: the evaluator's REJECT is answered with its reasons
RejectOrder(st, safety_result) ==
    [st EXCEPT !.response = ReplyWith("rejected", safety_result.reasons)]

handle_order(st, session_id, patient_id, extraction_result) ==
    IF extraction_result.needs_clarification
    THEN [st EXCEPT !.response = Reply("clarification")]
    ELSE IF extraction_result.entities = <<>>
    THEN [st EXCEPT !.response = Reply("no_medications")]
    ELSE
    LET entities == extraction_result.entities
        matched_medicines == MatchMedicines(st.stock, entities)
    IN  IF matched_medicines = <<>>
        THEN MedicineNotFound(st, entities)
        ELSE
        LET evaluated == evaluate(st, entities, matched_medicines, FALSE)
            safety_result == evaluated.safety_log[Len(evaluated.safety_log)].result
        IN  IF safety_result.decision = "REJECT"
            THEN RejectOrder(evaluated, safety_result)
            ELSE
            LET preview_id == st.next_preview
                items == BuildItems(entities, matched_medicines, safety_result)
                preview == [preview_id |-> preview_id,
                            patient_id |-> patient_id,
                            items |-> items,
                            total_amount |-> PreviewTotal(items),
                            safety_decision |-> safety_result.decision,
                            safety_reasons |-> safety_result.reasons,
                            requires_prescription |-> safety_result.requires_prescription]
                stored == StorePreview(evaluated, session_id, preview)
            IN  [stored EXCEPT !.response =
                    [message |-> IF safety_result.decision = "CONDITIONAL"
                                 THEN "preview_conditional" ELSE "preview_approved",
                     detail |-> <<>>,
                     requires_confirmation |-> TRUE,
                     order_preview |-> <<preview_id>>,
                     order |-> <<>>]]

\* Lines 383-389: the safety validation is recorded, then status VALIDATED
RecordValidated(ords, order_id) ==
    update_order_status(record_event(ords, order_id, "SAFETY_VALIDATION"),
                        order_id, "VALIDATED")

\* Lines 391-393: the confirmation is recorded, then status CONFIRMED
RecordConfirmed(ords, order_id) ==
    update_order_status(record_event(ords, order_id, "ORDER_CONFIRMED"),
                        order_id, "CONFIRMED")

\* Lines 396-399: the stock of each item's medicine is reduced by the
\* ordered quantity
RECURSIVE UpdateInventory(_, _)
UpdateInventory(stk, items) ==
    IF items = <<>> THEN stk
    ELSE UpdateInventory(update_stock(stk, Head(items).medicine_id, Head(items).quantity),
                         Tail(items))

\* Lines 403-405: fulfillment is recorded as initiated, then status PROCESSING
RecordProcessing(ords, order_id) ==
    update_order_status(record_event(ords, order_id, "FULFILLMENT_INITIATED"),
                        order_id, "PROCESSING")

\* ConfirmLifecycle with the VALIDATED transition left out
ConfirmLifecycleSkipsValidated(st, order_id) ==
    LET s2 == [st EXCEPT !.orders = RecordConfirmed(@, order_id)]
        s3 == [s2 EXCEPT !.stock = UpdateInventory(@, s2.orders[order_id].items)]
        s4 == [s3 EXCEPT !.orders = record_event(@, order_id, "INVENTORY_UPDATED")]
    IN  [s4 EXCEPT !.orders = RecordProcessing(@, order_id)]

\* Lines 383-405: the lifecycle steps of a confirmation, in the code's order
ConfirmLifecycle(st, order_id) ==
    LET s1 == [st EXCEPT !.orders = RecordValidated(@, order_id)]
        s2 == [s1 EXCEPT !.orders = RecordConfirmed(@, order_id)]
        s3 == [s2 EXCEPT !.stock = UpdateInventory(@, s2.orders[order_id].items)]
        s4 == [s3 EXCEPT !.orders = record_event(@, order_id, "INVENTORY_UPDATED")]
    IN  [s4 EXCEPT !.orders = RecordProcessing(@, order_id)]

\* Lines 407-423: one order-history record per item of the order
AddOrderHistory(history, order, patient_id) ==
    history \o [i \in DOMAIN order.items |->
                   [order_id |-> order.order_id,
                    patient_id |-> patient_id,
                    medicine_id |-> order.items[i].medicine_id,
                    quantity |-> order.items[i].quantity,
                    order_status |-> "PROCESSING"]]

\* CleanUpPreview with the preview left in the store
CleanUpPreviewSessionOnly(st, session_id, preview_id) ==
    [st EXCEPT !.session_contexts = Del(@, session_id)]

\* Lines 428-431: the preview is removed and the session unbound
CleanUpPreview(st, session_id, preview_id) ==
    [st EXCEPT !.pending_previews = Del(@, preview_id),
               !.session_contexts = Del(@, session_id)]

\* The session's pending preview id when it has an active one
ActivePreview(st, session_id) ==
    IF session_id \in DOMAIN st.session_contexts
       /\ st.session_contexts[session_id] \in DOMAIN st.pending_previews
    THEN <<st.session_contexts[session_id]>>
    ELSE <<>>

\* The no-pending branch without its guard: the preview lookup raises, and
\* process_message answers with its error message
NoPendingOrderRaises(st) == [st EXCEPT !.response = Reply("error")]

\* Lines 367-370: nothing to confirm
NoPendingOrder(st) == [st EXCEPT !.response = Reply("no_pending_order")]

\* ConfirmationTotals with the tax taken on subtotal and delivery together
ConfirmationTotalsTaxOnAll(total_amount) ==
    LET subtotal == total_amount * 1000
        delivery == 2000000
        tax == ((subtotal + delivery) * 5) \div 100
    IN  [subtotal |-> subtotal, tax |-> tax, delivery |-> delivery,
         grand_total |-> subtotal + tax + delivery]

\* Lines 435-438: the amounts of the confirmation message, in millionths of a
\* currency unit (a mill is 1000 of them, so that 5% of an amount in mills is
\* whole): tax = total_amount * 0.05, delivery = 2.00
ConfirmationTotals(total_amount) ==
    LET subtotal == total_amount * 1000
        tax == (subtotal * 5) \div 100
        delivery == 2000000
    IN  [subtotal |-> subtotal, tax |-> tax, delivery |-> delivery,
         grand_total |-> subtotal + tax + delivery]

\* Lines 372-486: the preview that was looked up is committed as an order.
\* del self.pending_previews[preview_id] raises when the preview is no longer
\* stored; process_message answers with its error message, and what was
\* written before stays
CommitPreview(st, session_id, patient_id, preview_id, preview) ==
    LET order_id == st.next_order
        created == [st EXCEPT !.orders = create_order(@, order_id, patient_id, preview.items),
                              !.next_order = @ + 1]
        processed == ConfirmLifecycle(created, order_id)
        recorded == [processed EXCEPT !.order_history =
                        AddOrderHistory(@, processed.orders[order_id], patient_id)]
        cleaned == CleanUpPreview(recorded, session_id, preview_id)
    IN  IF preview_id \notin DOMAIN recorded.pending_previews
        THEN [recorded EXCEPT !.response = Reply("error")]
        ELSE [cleaned EXCEPT !.response =
                [message |-> "order_confirmed",
                 detail |-> <<ConfirmationTotals(cleaned.orders[order_id].total_amount)>>,
                 requires_confirmation |-> FALSE,
                 order_preview |-> <<>>, order |-> <<order_id>>]]

handle_order_confirmation(st, session_id, patient_id) ==
    IF ActivePreview(st, session_id) = <<>>
    THEN NoPendingOrder(st)
    ELSE CommitPreview(st, session_id, patient_id, st.session_contexts[session_id],
                       st.pending_previews[st.session_contexts[session_id]])

\* handle_order_cancellation with the preview left in the store
handle_order_cancellation_keeps_preview(st, session_id) ==
    LET s2 == [st EXCEPT !.session_contexts = Del(@, session_id)]
    IN  [s2 EXCEPT !.response = Reply("order_cancelled")]

handle_order_cancellation(st, session_id) ==
    LET s1 == IF ActivePreview(st, session_id) # <<>>
              THEN [st EXCEPT !.pending_previews = Del(@, st.session_contexts[session_id])]
              ELSE st
        s2 == [s1 EXCEPT !.session_contexts = Del(@, session_id)]
    IN  [s2 EXCEPT !.response = Reply("order_cancelled")]

handle_status_check(st, patient_id) ==
    LET patient_orders == {o \in DOMAIN st.orders : st.orders[o].patient_id = patient_id}
    IN  IF patient_orders = {}
        THEN [st EXCEPT !.response = Reply("no_recent_orders")]
        ELSE LET latest == CHOOSE o \in patient_orders : \A x \in patient_orders : x <= o
             IN  [st EXCEPT !.response =
                    [message |-> "order_status", detail |-> <<>>,
                     requires_confirmation |-> FALSE,
                     order_preview |-> <<>>, order |-> <<latest>>]]

\* Lines 179-189: the handler a tool call selects
HandleToolCall(st, session_id, patient_id, call) ==
    CASE call.tool \in {"extract_order_details", "place_order"} ->
            handle_order(st, session_id, patient_id, call.extraction)
      [] call.tool = "confirm_last_order" ->
            handle_order_confirmation(st, session_id, patient_id)
      [] call.tool = "cancel_order" ->
            handle_order_cancellation(st, session_id)
      [] call.tool = "check_order_status" ->
            handle_status_check(st, patient_id)
      [] OTHER -> st

\* Lines 172-189: the tool calls of one turn are handled in order
RECURSIVE HandleToolCalls(_, _, _, _)
HandleToolCalls(st, session_id, patient_id, tool_calls) ==
    IF tool_calls = <<>> THEN st
    ELSE HandleToolCalls(HandleToolCall(st, session_id, patient_id, Head(tool_calls)),
                         session_id, patient_id, Tail(tool_calls))

\* request.session_id or request.patient_id
SessionKey(req) == IF req.session_id # "" THEN req.session_id ELSE req.patient_id

process_message(st, req) ==
    IF req.patient_id \notin Patients
    THEN [st EXCEPT !.response = Reply("patient_not_found")]
    ELSE IF req.tool_calls = <<>>
    THEN [st EXCEPT !.response = Reply("natural_conversation")]
    ELSE HandleToolCalls(st, SessionKey(req), req.patient_id, req.tool_calls)

-----------------------------------------------------------------------------
(* The order endpoints of main.py. *)

ApiReply(message, order_id) ==
    [message |-> message, detail |-> <<>>, requires_confirmation |-> FALSE,
     order_preview |-> <<>>, order |-> <<order_id>>]

\* POST /api/webhook/warehouse
warehouse_webhook(st, order_id) ==
    LET s1 == IF get_order(st.orders, order_id) # <<>>
              THEN [st EXCEPT !.orders = update_order_status(@, order_id, "PROCESSING")]
              ELSE st
    IN  [s1 EXCEPT !.response = ApiReply("received", order_id)]

\* fulfillment_agent.trigger_warehouse_webhook(order): the order is posted to
\* the warehouse webhook; the post may not be delivered
trigger_warehouse_webhook(st, order_id, delivered) ==
    IF delivered
    THEN [warehouse_webhook(st, order_id) EXCEPT !.response = st.response]
    ELSE st

\* POST /api/orders/{order_id}/confirm; decision is what fulfillment_agent.run
\* answered
confirm_order(st, order_id, decision) ==
    IF decision = "REJECTED"
    THEN [st EXCEPT !.response = ApiReply("http_400_fulfillment_rejected", order_id)]
    ELSE IF get_order(st.orders, order_id) = <<>>
    THEN [st EXCEPT !.response = ApiReply("http_404_order_not_found", order_id)]
    ELSE
    LET order == st.orders[order_id]
        s1 == [st EXCEPT !.orders = update_order_status(@, order_id, "CONFIRMED")]
        s2 == [s1 EXCEPT !.stock = UpdateInventory(@, order.items)]
        s3 == [s2 EXCEPT !.background_tasks = Append(@, order_id)]
        s4 == [s3 EXCEPT !.orders = update_order_status(@, order_id, "PREPARING")]
        s5 == [s4 EXCEPT !.orders = update_order_status(@, order_id, "SHIPPED")]
    IN  [s5 EXCEPT !.response = ApiReply("confirmed", order_id)]

\* cancel_order with a guard that forgets COMPLETED
cancel_order_allows_completed(st, order_id) ==
    IF get_order(st.orders, order_id) = <<>>
    THEN [st EXCEPT !.response = ApiReply("http_404_order_not_found", order_id)]
    ELSE IF st.orders[order_id].status \in {"CANCELLED"}
    THEN [st EXCEPT !.response = ApiReply("http_400_cannot_cancel", order_id)]
    ELSE [st EXCEPT !.orders = update_order_status(@, order_id, "CANCELLED"),
                    !.response = ApiReply("cancelled", order_id)]

\* POST /api/orders/{order_id}/cancel
cancel_order(st, order_id) ==
    IF get_order(st.orders, order_id) = <<>>
    THEN [st EXCEPT !.response = ApiReply("http_404_order_not_found", order_id)]
    ELSE IF st.orders[order_id].status \in {"COMPLETED", "CANCELLED"}
    THEN [st EXCEPT !.response = ApiReply("http_400_cannot_cancel", order_id)]
    ELSE [st EXCEPT !.orders = update_order_status(@, order_id, "CANCELLED"),
                    !.response = ApiReply("cancelled", order_id)]

-----------------------------------------------------------------------------
(* The state machine. *)

State ==
    [pending_previews |-> pending_previews,
     session_contexts |-> session_contexts,
     next_preview |-> next_preview,
     orders |-> orders,
     next_order |-> next_order,
     stock |-> stock,
     order_history |-> order_history,
     background_tasks |-> background_tasks,
     safety_log |-> safety_log,
     handoff |-> handoff,
     conversation_histories |-> conversation_histories,
     response |-> response]

\* No /api/chat turn has been routed yet
NoHandoff ==
    [stage |-> "idle", next_agent |-> "", hops |-> 0, invoked |-> {},
     initial |-> "", rejected_by |-> <<>>, extracted_data |-> <<>>,
     current_evidence |-> <<>>, qty |-> <<>>, orders_before |-> {}]

\* The stores as a request finds them: no evaluator call made for it yet
Serving == [State EXCEPT !.safety_log = <<>>]

\* The stores become those of st
Becomes(st) ==
    /\ pending_previews' = st.pending_previews
    /\ session_contexts' = st.session_contexts
    /\ next_preview' = st.next_preview
    /\ orders' = st.orders
    /\ next_order' = st.next_order
    /\ stock' = st.stock
    /\ order_history' = st.order_history
    /\ background_tasks' = st.background_tasks
    /\ safety_log' = st.safety_log
    /\ handoff' = st.handoff
    /\ conversation_histories' = st.conversation_histories
    /\ response' = st.response

\* Within the bounds of the model
WithinBounds(st) ==
    /\ st.next_preview <= MaxPreviews + 1
    /\ st.next_order <= MaxOrders + 1

Init ==
    /\ pending_previews = <<>>
    /\ session_contexts = <<>>
    /\ next_preview = 1
    /\ orders = <<>>
    /\ next_order = 1
    /\ stock = InitialStock
    /\ order_history = <<>>
    /\ background_tasks = <<>>
    /\ api_calls = 0
    /\ safety_log = <<>>
    /\ in_flight = <<>>
    /\ handoff = NoHandoff
    /\ conversation_histories = <<>>
    /\ request = [endpoint |-> "none", session_key |-> "", patient_id |-> "",
                  tools |-> <<>>, order_id |-> <<>>]
    /\ response = Reply("none")

\* What the extraction agent may answer
Entity(medicine, dosage, quantity) ==
    [medicine |-> medicine, dosage |-> dosage, quantity |-> quantity]

Extraction(needs_clarification, entities) ==
    [needs_clarification |-> needs_clarification, entities |-> entities]

ExtractionResults ==
    { Extraction(FALSE, <<Entity("Paracetamol", <<>>, 2)>>),
      Extraction(FALSE, <<Entity("Paracetamol", <<"5", "M", "G">>, 2),
                          Entity("Cetirizine", <<>>, 0)>>),
      Extraction(FALSE, <<Entity("Paracetamol", <<"6", "m", "g">>, 1)>>),
      Extraction(FALSE, <<Entity("Unknown", <<>>, 1), Entity("Missing", <<>>, 1)>>),
      Extraction(FALSE, <<>>),
      Extraction(TRUE, <<Entity("Paracetamol", <<>>, 2)>>) }

NoExtraction == Extraction(FALSE, <<>>)

OrderCalls ==
    {[tool |-> "extract_order_details", extraction |-> e] : e \in ExtractionResults}
    \cup {[tool |-> "place_order",
           extraction |-> Extraction(FALSE, <<Entity("Paracetamol", <<>>, 2)>>)]}

Call(tool) == [tool |-> tool, extraction |-> NoExtraction]

\* The tool calls one reply of the reasoning service may carry besides a
\* single call
ToolCallPairs ==
    LET calls == {[tool |-> "extract_order_details",
                   extraction |-> Extraction(FALSE, <<Entity("Paracetamol", <<>>, 2)>>)],
                  Call("confirm_last_order")}
    IN  {<<a, b>> : a \in calls, b \in calls}

\* The (session id, patient id) a request may carry: no session id, or a
\* session id that another patient's requests fall back to
Requesters == {<<"", "P1">>, <<"", "P2">>, <<"P1", "P2">>}

\* One turn of the orchestrator
Turn(session_id, patient_id, tool_calls) ==
    LET req == [session_id |-> session_id, patient_id |-> patient_id,
                tool_calls |-> tool_calls]
    IN  \E st \in {process_message(Serving, req)} :
        /\ WithinBounds(st)
        /\ Becomes(st)
        /\ request' = [endpoint |-> "chat", session_key |-> SessionKey(req),
                       patient_id |-> patient_id,
                       tools |-> [i \in DOMAIN tool_calls |-> tool_calls[i].tool],
                       order_id |-> <<>>]
        /\ UNCHANGED <<api_calls, in_flight>>

OrderTurn ==
    \E r \in Requesters, c \in OrderCalls : Turn(r[1], r[2], <<c>>)

ConfirmTurn ==
    \E r \in Requesters : Turn(r[1], r[2], <<Call("confirm_last_order")>>)

CancelTurn ==
    \E r \in Requesters : Turn(r[1], r[2], <<Call("cancel_order")>>)

StatusCheckTurn ==
    \E r \in Requesters : Turn(r[1], r[2], <<Call("check_order_status")>>)

ConversationTurn ==
    \E r \in Requesters : Turn(r[1], r[2], <<>>)

\* A turn for a patient id the data service does not know
UnknownPatientTurn ==
    \E c \in {Call("confirm_last_order"), Call("cancel_order")} : Turn("P1", "P9", <<c>>)

MultiToolTurn ==
    \E r \in Requesters, cs \in ToolCallPairs : Turn(r[1], r[2], cs)

\* An order id a client may name: one that exists, or the next, which does not
OrderIds == 1..next_order

ApiRequest(endpoint, order_id) ==
    /\ api_calls < MaxApiCalls
    /\ api_calls' = api_calls + 1
    /\ request' = [endpoint |-> endpoint, session_key |-> "", patient_id |-> "",
                   tools |-> <<>>, order_id |-> <<order_id>>]
    /\ UNCHANGED in_flight

ConfirmOrderEndpoint ==
    \E o \in OrderIds, d \in {"APPROVED", "REJECTED"} :
        /\ ApiRequest("confirm_order", o)
        /\ Becomes(confirm_order(Serving, o, d))

CancelOrderEndpoint ==
    \E o \in OrderIds :
        /\ ApiRequest("cancel_order", o)
        /\ Becomes(cancel_order(Serving, o))

WarehouseWebhookEndpoint ==
    \E o \in OrderIds :
        /\ ApiRequest("warehouse_webhook", o)
        /\ Becomes(warehouse_webhook(Serving, o))

\* A background task scheduled by confirm_order runs
RunBackgroundTask ==
    \E i \in DOMAIN background_tasks, delivered \in BOOLEAN :
        LET rest == [j \in 1..(Len(background_tasks) - 1) |->
                        IF j < i THEN background_tasks[j] ELSE background_tasks[j + 1]]
            st == trigger_warehouse_webhook([Serving EXCEPT !.background_tasks = rest],
                                            background_tasks[i], delivered)
        IN  /\ Becomes(st)
            /\ request' = [endpoint |-> "background_task", session_key |-> "",
                           patient_id |-> "", tools |-> <<>>,
                           order_id |-> <<background_tasks[i]>>]
            /\ UNCHANGED <<api_calls, in_flight>>

\* The orchestrator: every turn of the chat assistant
Next ==
    \/ OrderTurn
    \/ ConfirmTurn
    \/ CancelTurn
    \/ StatusCheckTurn
    \/ ConversationTurn
    \/ UnknownPatientTurn
    \/ MultiToolTurn

Spec == Init /\ [][Next]_vars

\* The order lifecycle: the turns of one patient that commit an order, and
\* the order endpoints, which read and write only the order store, the stock
\* and the background tasks
LifecycleOrderTurn ==
    Turn("", "P1", <<[tool |-> "extract_order_details",
                      extraction |-> Extraction(FALSE, <<Entity("Paracetamol", <<>>, 2)>>)]>>)

LifecycleConfirmTurn == Turn("", "P1", <<Call("confirm_last_order")>>)

LifecycleNext ==
    \/ LifecycleOrderTurn
    \/ LifecycleConfirmTurn
    \/ ConfirmOrderEndpoint
    \/ CancelOrderEndpoint
    \/ WarehouseWebhookEndpoint
    \/ RunBackgroundTask

LifecycleSpec == Init /\ [][LifecycleNext]_vars

\* Concurrent turns of one session. process_message is a coroutine whose only
\* awaits are of its own handlers, which await nothing, and its calls of the
\* reasoning service and the data service are blocking calls: once the event
\* loop starts a turn it runs to its end before any other turn starts. Turns
\* that have arrived wait in in_flight and are run in any order.
ConcurrentCalls ==
    {<<[tool |-> "extract_order_details",
        extraction |-> Extraction(FALSE, <<Entity("Paracetamol", <<>>, 2)>>)]>>,
     <<Call("confirm_last_order")>>,
     <<Call("cancel_order")>>}

\* A handler that suspends between looking up the session's preview and
\* committing it
SuspendsBeforeCommit(tool) == tool = "confirm_last_order"

\* Lines 362-375: whether the handler of a tool gives up the event loop
\* between looking up the session's preview and writing; none awaits anything
Suspends(tool) == FALSE

\* The tools of the turns in flight
InFlightTools == {in_flight[i].tool_calls[1].tool : i \in DOMAIN in_flight}

Arrive ==
    /\ Len(in_flight) < MaxInFlight
    /\ \E calls \in ConcurrentCalls :
          in_flight' = Append(in_flight,
                              [session_id |-> "", patient_id |-> "P1",
                               tool_calls |-> calls, raced_with |-> InFlightTools,
                               held |-> <<>>])
    /\ UNCHANGED <<pending_previews, session_contexts, next_preview, orders, next_order,
                   stock, order_history, background_tasks, api_calls, safety_log,
                   handoff, conversation_histories, request, response>>

\* The task's turn as far as the event loop runs it in one go: the whole
\* turn, or the rest of it when it had been suspended holding a preview
TaskRun(task) ==
    IF task.held # <<>>
    THEN CommitPreview(Serving, SessionKey(task), task.patient_id,
                       task.held[1].preview_id, task.held[1])
    ELSE process_message(Serving, task)

\* The task looks up its session's preview and is suspended holding it
TaskSuspends(task) ==
    /\ task.held = <<>>
    /\ Suspends(task.tool_calls[1].tool)
    /\ ActivePreview(State, SessionKey(task)) # <<>>

RunTask ==
    \E i \in DOMAIN in_flight :
        IF TaskSuspends(in_flight[i])
        THEN /\ in_flight' =
                  [in_flight EXCEPT ![i].held =
                      <<pending_previews[session_contexts[SessionKey(in_flight[i])]]>>]
             /\ UNCHANGED <<pending_previews, session_contexts, next_preview, orders,
                            next_order, stock, order_history, background_tasks,
                            api_calls, safety_log, handoff, conversation_histories, request, response>>
        ELSE
        \E st \in {TaskRun(in_flight[i])} :
            /\ WithinBounds(st)
            /\ Becomes(st)
            /\ request' = [endpoint |-> "chat", session_key |-> SessionKey(in_flight[i]),
                           patient_id |-> in_flight[i].patient_id,
                           tools |-> [j \in DOMAIN in_flight[i].tool_calls |->
                                         in_flight[i].tool_calls[j].tool],
                           order_id |-> <<>>,
                           raced_with |-> in_flight[i].raced_with]
            /\ in_flight' = [j \in 1..(Len(in_flight) - 1) |->
                                IF j < i THEN in_flight[j] ELSE in_flight[j + 1]]
            /\ UNCHANGED api_calls

ConcurrentNext ==
    \/ Arrive
    \/ RunTask

ConcurrentSpec == Init /\ [][ConcurrentNext]_vars

\* A collaborator call fails during a turn. The calls of a handler run inside
\* the try block of process_message (l.158-204); an exception raised by one
\* of them ends the handler where it stands, and process_message answers with
\* its error message (l.206-210). Nothing that was written before the failing
\* call is taken back.

\* The collaborator calls of a confirmation, in the code's order
ConfirmCalls ==
    <<"create_order", "record_safety_validation", "record_order_confirmed",
      "update_stock", "record_inventory_updated", "record_fulfillment_initiated",
      "add_order", "generate_receipt">>

\* Position of a call among the collaborator calls of a confirmation
CallIndex(name) == CHOOSE i \in DOMAIN ConfirmCalls : ConfirmCalls[i] = name

\* Lines 407-423 for the first done items of the order
AddOrderHistoryUpTo(history, order, patient_id, done) ==
    SubSeq(AddOrderHistory(history, order, patient_id), 1, Len(history) + done)

\* Lines 372-426 as far as the call named failing, which raises; a call made
\* once per item (update_stock, add_order) raises for the item after the first
\* done items
ConfirmUpTo(st, patient_id, preview, failing, done) ==
    LET order_id == st.next_order
        at == CallIndex(failing)
        created == [st EXCEPT !.orders = create_order(@, order_id, patient_id, preview.items),
                              !.next_order = @ + 1]
        s1 == [created EXCEPT !.orders = RecordValidated(@, order_id)]
        s2 == [s1 EXCEPT !.orders = RecordConfirmed(@, order_id)]
        partly == [s2 EXCEPT !.stock = UpdateInventory(@, SubSeq(preview.items, 1, done))]
        s3 == [s2 EXCEPT !.stock = UpdateInventory(@, s2.orders[order_id].items)]
        s4 == [s3 EXCEPT !.orders = record_event(@, order_id, "INVENTORY_UPDATED")]
        s5 == [s4 EXCEPT !.orders = RecordProcessing(@, order_id)]
        logged == [s5 EXCEPT !.order_history =
                      AddOrderHistoryUpTo(@, s5.orders[order_id], patient_id, done)]
        recorded == [s5 EXCEPT !.order_history =
                        AddOrderHistory(@, s5.orders[order_id], patient_id)]
    IN  CASE at = 1 -> st
          [] at = 2 -> created
          [] at = 3 -> s1
          [] at = 4 -> partly
          [] at = 5 -> s3
          [] at = 6 -> s4
          [] at = 7 -> logged
          [] OTHER -> recorded

\* _handle_order_confirmation when the collaborator call named failing
\* raises: the guard of l.364-370 answers before any collaborator is called
handle_order_confirmation_failing(st, session_id, patient_id, failing, done) ==
    IF ActivePreview(st, session_id) = <<>>
    THEN NoPendingOrder(st)
    ELSE [ConfirmUpTo(st, patient_id,
                      st.pending_previews[st.session_contexts[session_id]],
                      failing, done)
             EXCEPT !.response = Reply("error")]

\* _handle_order when one of its collaborator calls raises (extraction,
\* inventory lookup, safety evaluation): they all come before the preview is
\* stored at l.335-337, so nothing has been written
handle_order_failing(st) == [st EXCEPT !.response = Reply("error")]

\* The number of items a per-item call may have completed before it raises
ItemsDone(st, session_id) ==
    IF ActivePreview(st, session_id) = <<>> THEN {0}
    ELSE 0 .. Len(st.pending_previews[st.session_contexts[session_id]].items) - 1

FailureRequest(session_key, patient_id, tool) ==
    [endpoint |-> "chat", session_key |-> session_key, patient_id |-> patient_id,
     tools |-> <<tool>>, order_id |-> <<>>]

FailureOrderTurn == \E c \in OrderCalls : Turn("", "P1", <<c>>)

FailureConfirmTurn == Turn("", "P1", <<Call("confirm_last_order")>>)

FailingOrderTurn ==
    \E st \in {handle_order_failing(Serving)} :
        /\ Becomes(st)
        /\ request' = FailureRequest("P1", "P1", "extract_order_details")
        /\ UNCHANGED <<api_calls, in_flight>>

FailingConfirmTurn ==
    \E failing \in {ConfirmCalls[i] : i \in DOMAIN ConfirmCalls}, done \in ItemsDone(State, "P1") :
        \E st \in {handle_order_confirmation_failing(Serving, "P1", "P1", failing, done)} :
            /\ WithinBounds(st)
            /\ Becomes(st)
            /\ request' = FailureRequest("P1", "P1", "confirm_last_order")
            /\ UNCHANGED <<api_calls, in_flight>>

FailureNext ==
    \/ FailureOrderTurn
    \/ FailureConfirmTurn
    \/ FailingOrderTurn
    \/ FailingConfirmTurn

FailureSpec == Init /\ [][FailureNext]_vars

-----------------------------------------------------------------------------
(* The decision router: POST /api/chat of main.py. The pharmacist agent and
   the collaborators it hands off to answer with whatever decision, evidence
   and next agent the reasoning service records; the router follows
   next_agent, one collaborator per pass of its loop. *)

Decisions == {"APPROVED", "REJECTED", "NEEDS_INFO", "SCHEDULED"}

\* The collaborators the router knows by name (l.149, 164, 176, 181)
NamedCollaborators ==
    {"InventoryAgent", "PolicyAgent", "RefillPredictionAgent", "FulfillmentAgent"}

\* What a decision may name as next agent: nothing, a named collaborator, or
\* a name the router does not know
NextAgents == NamedCollaborators \cup {"", "BillingAgent"}

\* The keys of the evidence the router reads (l.151-152, 229)
MedicineKey == <<"m", "e", "d", "i", "c", "i", "n", "e">>

QuantityKey == <<"q", "u", "a", "n", "t", "i", "t", "y">>

\* str.strip(), for the space character
RECURSIVE StripLeft(_)
StripLeft(s) == IF s # <<>> /\ Head(s) = " " THEN StripLeft(Tail(s)) ELSE s

RECURSIVE StripRight(_)
StripRight(s) ==
    IF s # <<>> /\ s[Len(s)] = " " THEN StripRight(SubSeq(s, 1, Len(s) - 1)) ELSE s

Strip(s) == StripRight(StripLeft(s))

\* ":" in item (l.104)
HasColon(item) == \E i \in 1..Len(item) : item[i] = ":"

\* Where item.split(":", 1) cuts (l.105)
FirstColon(item) ==
    CHOOSE i \in 1..Len(item) : item[i] = ":" /\ \A j \in 1..(i - 1) : item[j] # ":"

\* Lines 103-106: the loop of parse_evidence, result being the dict so far
RECURSIVE parse_evidence_into(_, _)
parse_evidence_into(result, evidence) ==
    IF evidence = <<>>
    THEN result
    ELSE LET item == Head(evidence)
             cut == FirstColon(item)
             key == SubSeq(item, 1, cut - 1)
             val == SubSeq(item, cut + 1, Len(item))
         IN  parse_evidence_into(
                 IF HasColon(item) THEN Put(result, Lower(Strip(key)), Strip(val))
                                   ELSE result,
                 Tail(evidence))

\* parse_evidence (l.100-107)
parse_evidence(evidence) == parse_evidence_into(<<>>, evidence)

\* The evidence lists a decision may carry, each entry a string
Evidences ==
    {<<>>,
     <<<<"M", "e", "d", "i", "c", "i", "n", "e", ":", " ", "P", "a", "r", "a", "c", "e", "t", "a", "m", "o", "l">>,
       <<"Q", "u", "a", "n", "t", "i", "t", "y", ":", " ", "3", "0", "x">>>>,
     <<<<"R", "e", "q", "u", "e", "s", "t", "e", "d", " ", "5">>,
       <<"q", "u", "a", "n", "t", "i", "t", "y", ":", " ", "7">>,
       <<" ", "Q", "U", "A", "N", "T", "I", "T", "Y", " ", ":", " ", "t", "w", "o">>,
       <<"N", "o", "t", "e", ":", " ", "a", ":", "b">>>>}

\* str.replace("x", "") (l.152, 166, 186)
RemoveX(s) == SelectSeq(s, LAMBDA ch : ch # "x")

DigitChars == <<"0", "1", "2", "3", "4", "5", "6", "7", "8", "9">>

\* str.isdigit() (l.187)
IsDigit(s) == s # <<>> /\ \A i \in 1..Len(s) : \E d \in 1..10 : DigitChars[d] = s[i]

\* int() of a string of digits
RECURSIVE ToInt(_)
ToInt(s) ==
    IF s = <<>>
    THEN 0
    ELSE 10 * ToInt(SubSeq(s, 1, Len(s) - 1))
            + (CHOOSE d \in 1..10 : DigitChars[d] = s[Len(s)]) - 1

\* Lines 152 and 166: the quantity handed to InventoryAgent and PolicyAgent,
\* or <<>> where int() raises ValueError (int() accepts spaces round the
\* digits)
RouterQuantity(extracted_data) ==
    IF QuantityKey \in DOMAIN extracted_data
    THEN LET v == Strip(RemoveX(extracted_data[QuantityKey]))
         IN  IF IsDigit(v) THEN <<ToInt(v)>> ELSE <<>>
    ELSE <<30>>

\* Lines 186-187: the quantity of the order the fulfillment branch creates
FulfillmentQuantity(extracted_data) ==
    LET qty_str == Strip(RemoveX(IF QuantityKey \in DOMAIN extracted_data
                                 THEN extracted_data[QuantityKey]
                                 ELSE <<"1">>))
    IN  IF IsDigit(qty_str) THEN ToInt(qty_str) ELSE 1

\* What an agent's run() may return
AgentAnswers == [decision : Decisions, next_agent : NextAgents, evidence : Evidences]

\* dict.update (l.161): the keys of the new evidence replace the old ones
MergeEvidence(h, evidence) ==
    LET new == parse_evidence(evidence)
    IN  [h EXCEPT !.extracted_data =
            [k \in DOMAIN @ \cup DOMAIN new |-> IF k \in DOMAIN new THEN new[k] ELSE @[k]]]

\* Lines 229-241: the reply after the loop has ended
FinalReply(st) ==
    [st EXCEPT !.handoff.stage = "done",
               !.response =
                   IF MedicineKey \in DOMAIN st.handoff.extracted_data
                   THEN [Reply("good_news") EXCEPT !.requires_confirmation = TRUE]
                   ELSE Reply("decision_reason")]

\* Line 146 and l.225-226: the loop goes on while next_agent is not empty and
\* leaves at a name that is none of the four
ContinueChain(st) ==
    IF st.handoff.next_agent \in NamedCollaborators THEN st ELSE FinalReply(st)

\* A router that takes no decision for a rejection
RejectionIgnored(decision) == FALSE

\* A decision REJECTED ends the turn (l.135-140, 157, 171)
RejectionEnds(decision) == decision = "REJECTED"

\* Lines 116-144: the pharmacist agent's decision opens the turn
RouteDecision(st, patient_id, answer) ==
    LET opened == [NoHandoff EXCEPT !.initial = answer.decision,
                                    !.orders_before = DOMAIN st.orders]
    IN  IF patient_id \notin Patients
        THEN [st EXCEPT !.handoff = [NoHandoff EXCEPT !.stage = "done"],
                        !.response = Reply("patient_not_found")]
        ELSE IF answer.decision = "NEEDS_INFO" \/ RejectionEnds(answer.decision)
        THEN [st EXCEPT !.handoff = [opened EXCEPT !.stage = "done"],
                        !.response = ReplyWith("decision_message", <<answer.decision>>)]
        ELSE ContinueChain(
                [st EXCEPT !.handoff =
                    [MergeEvidence(opened, answer.evidence)
                        EXCEPT !.stage = "chain", !.next_agent = answer.next_agent,
                               !.current_evidence = answer.evidence]])

\* The collaborator named is invoked
Invoked(st, name) ==
    [st EXCEPT !.handoff.invoked = @ \cup {name}, !.handoff.hops = @ + 1]

\* Lines 243-246: an exception of the turn is answered with status 500; the
\* ValueError of int() at l.152 or l.166 is one, raised before the collaborator
\* is invoked
QuantityRaises(st) ==
    [st EXCEPT !.handoff.stage = "done", !.handoff.qty = <<>>,
               !.response = Reply("internal_server_error")]

\* Lines 149-162 (merge TRUE) and l.164-174 (merge FALSE): the collaborator's
\* decision either ends the turn with its reason or becomes the current one
FollowDecision(st, name, answer, merge, rejection) ==
    LET called == [Invoked(st, name) EXCEPT
                      !.handoff.qty = RouterQuantity(st.handoff.extracted_data)]
    IN  IF RouterQuantity(st.handoff.extracted_data) = <<>>
        THEN QuantityRaises(st)
        ELSE IF RejectionEnds(answer.decision)
        THEN [called EXCEPT !.handoff.stage = "done",
                            !.handoff.rejected_by = <<name>>,
                            !.response = Reply(rejection)]
        ELSE ContinueChain(
                [called EXCEPT !.handoff =
                    [(IF merge THEN MergeEvidence(@, answer.evidence) ELSE @)
                        EXCEPT !.next_agent = answer.next_agent,
                               !.current_evidence = answer.evidence]])

\* Lines 176-179: the refill prediction's message is the reply
RefillStatus(st, answer) ==
    [Invoked(st, "RefillPredictionAgent") EXCEPT
        !.handoff.stage = "done",
        !.handoff.rejected_by = IF answer.decision = "REJECTED"
                                THEN <<"RefillPredictionAgent">> ELSE <<>>,
        !.response = ReplyWith("refill_status", <<answer.decision>>)]

\* Lines 181-221: an order of one item is created from the evidence and sent
\* to the warehouse; raised names the call that raises, if any
PlaceOrder(st, patient_id, delivered, raised) ==
    LET called == [Invoked(st, "FulfillmentAgent") EXCEPT
                      !.handoff.qty = <<FulfillmentQuantity(st.handoff.extracted_data)>>]
        order_id == st.next_order
        item == [medicine_id |-> "MED_AUTO",
                 medicine_name |-> IF MedicineKey \in DOMAIN st.handoff.extracted_data
                                   THEN st.handoff.extracted_data[MedicineKey]
                                   ELSE <<"G", "e", "n", "e", "r", "i", "c", " ", "M", "e", "d", "i", "c", "i", "n", "e">>,
                 strength |-> <<>>,
                 prescription_required |-> FALSE,
                 quantity |-> FulfillmentQuantity(st.handoff.extracted_data),
                 unit_price |-> 500]
        created == [called EXCEPT !.orders = create_order(@, order_id, patient_id, <<item>>),
                                  !.next_order = @ + 1]
        sent == trigger_warehouse_webhook(created, order_id, delivered)
        failed == Reply("order_error")
    IN  CASE raised = "create_order" ->
                [called EXCEPT !.handoff.stage = "done", !.response = failed]
          [] raised = "trigger_warehouse_webhook" ->
                [created EXCEPT !.handoff.stage = "done", !.response = failed]
          [] OTHER ->
                [sent EXCEPT !.handoff.stage = "done",
                             !.response = ApiReply("order_placed", order_id)]

\* Lines 146-226: one pass of the loop
Handoff(st, patient_id, answer, delivered, raised) ==
    CASE st.handoff.next_agent = "InventoryAgent" ->
            FollowDecision(st, "InventoryAgent", answer, TRUE, "cannot_fulfill")
      [] st.handoff.next_agent = "PolicyAgent" ->
            FollowDecision(st, "PolicyAgent", answer, FALSE, "safety_check_failed")
      [] st.handoff.next_agent = "RefillPredictionAgent" ->
            RefillStatus(st, answer)
      [] OTHER -> PlaceOrder(st, patient_id, delivered, raised)

RouterRequest(patient_id) ==
    [endpoint |-> "api_chat", session_key |-> "", patient_id |-> patient_id,
     tools |-> <<>>, order_id |-> <<>>]

\* The pharmacist agent is not asked about a patient that is not found
\* (l.119-121)
PharmacistAnswers(patient_id) ==
    IF patient_id \in Patients
    THEN AgentAnswers
    ELSE {[decision |-> "APPROVED", next_agent |-> "", evidence |-> <<>>]}

\* A chat request arrives and the pharmacist agent decides
ChatDecision ==
    /\ handoff.stage # "chain"
    /\ \E patient_id \in {"P1", "P9"} :
          \E answer \in PharmacistAnswers(patient_id) :
          /\ Becomes(RouteDecision(Serving, patient_id, answer))
          /\ request' = RouterRequest(patient_id)
    /\ UNCHANGED <<api_calls, in_flight>>

\* The fulfillment branch asks no collaborator for a decision (l.181-221)
CollaboratorAnswers ==
    IF handoff.next_agent = "FulfillmentAgent"
    THEN {[decision |-> "APPROVED", next_agent |-> "",
           evidence |-> <<>>]}
    ELSE AgentAnswers

\* Whether the warehouse post of the fulfillment branch is delivered
WebhookOutcomes == IF handoff.next_agent = "FulfillmentAgent" THEN BOOLEAN ELSE {FALSE}

\* The call of the fulfillment branch that raises, if any
OrderFailures ==
    IF handoff.next_agent = "FulfillmentAgent"
    THEN {"", "create_order", "trigger_warehouse_webhook"}
    ELSE {""}

\* The router hands off to the collaborator the current decision names
ChatHandoff ==
    /\ handoff.stage = "chain"
    /\ handoff.hops < MaxHops
    /\ \E answer \in CollaboratorAnswers, delivered \in WebhookOutcomes,
          raised \in OrderFailures :
          \E st \in {Handoff(Serving, request.patient_id, answer, delivered, raised)} :
              /\ st.next_order <= MaxRouterOrders + 1
              /\ Becomes(st)
    /\ UNCHANGED <<api_calls, in_flight, request>>

RouterNext ==
    \/ ChatDecision
    \/ ChatHandoff

RouterSpec == Init /\ [][RouterNext]_vars

-----------------------------------------------------------------------------
(* The refill predictor (backend/agents/refill_agent.py). Dates are day
   numbers; confidence is counted in hundredths (1.0 is 100). *)

Max(a, b) == IF a > b THEN a ELSE b

\* One record of the medication history: supply_days may be absent, and
\* purchase_date may be absent or None
Medication(supply_days, purchase_date) ==
    [medicine_name |-> "X", supply_days |-> supply_days, purchase_date |-> purchase_date]

\* The action of the reasoning service's own rule (remind within a week)
RefillActionWithinAWeek(days_remaining) == IF days_remaining <= 7 THEN "REMIND" ELSE "NONE"

\* Lines 115-117
RefillAction(days_remaining) == IF days_remaining <= 5 THEN "REMIND" ELSE "NONE"

\* Lines 106-124: the prediction for one medication that has a purchase date
FallbackPrediction(med, now) ==
    LET days_supply == IF med.supply_days = <<>> THEN 30 ELSE med.supply_days[1]
        days_since == now - med.purchase_date[1]
        days_remaining == Max(0, days_supply - days_since)
    IN  [medicine |-> med.medicine_name,
         days_remaining |-> days_remaining,
         action |-> RefillAction(days_remaining),
         confidence |-> 100,
         reason |-> "Deterministic calculation"]

\* RefillAgent._fallback_calculation: medications without a purchase date are
\* passed over
RECURSIVE _fallback_calculation(_, _)
_fallback_calculation(history, now) ==
    IF history = <<>> THEN <<>>
    ELSE (IF Head(history).purchase_date # <<>>
          THEN <<FallbackPrediction(Head(history), now)>>
          ELSE <<>>)
         \o _fallback_calculation(Tail(history), now)

\* Lines 79-85: a prediction built from one entry of the reasoning service's
\* list; keys that are absent take their defaults
ParsedPrediction(entry) ==
    [medicine |-> entry.medicine,
     days_remaining |-> IF entry.days_remaining = <<>> THEN 0 ELSE entry.days_remaining[1],
     action |-> IF entry.action = <<>> THEN "NONE" ELSE entry.action[1],
     confidence |-> IF entry.confidence = <<>> THEN 0 ELSE entry.confidence[1],
     reason |-> ""]

\* An empty list counted as a usable answer
EmptyListAccepted(predictions) == FALSE

\* Line 88: if not predictions
NoPredictions(predictions) == predictions = <<>>

\* RefillAgent.predict: outcome is what the call of the reasoning service
\* came to. The call raising, its content not being JSON (l.95-96), JSON of
\* another shape than an object holding a list of objects, and a field that
\* RefillPrediction does not accept all end in an except clause (l.95-100)
predict(history, now, outcome) ==
    IF outcome.kind # "predictions"
    THEN _fallback_calculation(history, now)
    ELSE LET predictions == [i \in DOMAIN outcome.predictions |->
                                ParsedPrediction(outcome.predictions[i])]
         IN  IF NoPredictions(predictions)
             THEN _fallback_calculation(history, now)
             ELSE predictions

\* Medication records: supply absent, 0 or 30 days; purchased 40, 26, 25, 24
\* days before day 100, three days after it, or with no date
Medications ==
    {Medication(s, d) : s \in {<<>>, <<0>>, <<30>>},
                        d \in {<<>>, <<60>>, <<74>>, <<75>>, <<76>>, <<103>>}}

Histories ==
    {<<>>} \cup {<<m>> : m \in Medications}
           \cup {<<m, n>> : m \in Medications, n \in {Medication(<<30>>, <<>>),
                                                       Medication(<<30>>, <<75>>)}}

PredictionEntry(days_remaining, action, confidence) ==
    [medicine |-> "X", days_remaining |-> days_remaining, action |-> action,
     confidence |-> confidence]

\* What the call of the reasoning service may come to
ReasoningOutcomes ==
    {[kind |-> k, predictions |-> <<>>] :
        k \in {"error", "malformed_json", "not_an_object", "field_rejected", "predictions"}}
    \cup {[kind |-> "predictions", predictions |-> <<e>>] :
            e \in {PredictionEntry(<<3>>, <<"REMIND">>, <<90>>),
                   PredictionEntry(<<>>, <<>>, <<>>)}}

RefillInputs ==
    {[endpoint |-> "refill_predict", history |-> h, now |-> 100, outcome |-> o] :
        h \in Histories, o \in ReasoningOutcomes}

RefillInit ==
    /\ pending_previews = <<>>
    /\ session_contexts = <<>>
    /\ next_preview = 1
    /\ orders = <<>>
    /\ next_order = 1
    /\ stock = InitialStock
    /\ order_history = <<>>
    /\ background_tasks = <<>>
    /\ api_calls = 0
    /\ safety_log = <<>>
    /\ in_flight = <<>>
    /\ handoff = NoHandoff
    /\ conversation_histories = <<>>
    /\ request \in RefillInputs
    /\ response = Reply("none")

\* refill_agent._fallback_calculation(history)
FallbackCall ==
    /\ response.message # "refill_fallback"
    /\ response' = ReplyWith("refill_fallback",
                             _fallback_calculation(request.history, request.now))
    /\ UNCHANGED <<pending_previews, session_contexts, next_preview, orders, next_order,
                   stock, order_history, background_tasks, api_calls, safety_log,
                   in_flight, handoff, conversation_histories,
                   request>>

\* refill_agent.predict(patient_id, patient_name, history)
PredictCall ==
    /\ response.message # "refill_predictions"
    /\ response' = ReplyWith("refill_predictions",
                             predict(request.history, request.now, request.outcome))
    /\ UNCHANGED <<pending_previews, session_contexts, next_preview, orders, next_order,
                   stock, order_history, background_tasks, api_calls, safety_log,
                   in_flight, handoff, conversation_histories,
                   request>>

RefillNext ==
    \/ FallbackCall
    \/ PredictCall

RefillSpec == RefillInit /\ [][RefillNext]_vars

-----------------------------------------------------------------------------
(* The order assembly pipeline on orders of several items: start-order turns
   of one patient whose extraction names one or two medicines, and the
   confirm turns that lower the stock between them. *)

AssemblyExtractions ==
    { Extraction(FALSE, <<Entity("Paracetamol", <<>>, 2)>>),
      Extraction(FALSE, <<Entity("Paracetamol", <<>>, 0)>>),
      Extraction(FALSE, <<Entity("Cetirizine", <<>>, 50)>>),
      Extraction(FALSE, <<Entity("Paracetamol", <<>>, 20), Entity("Cetirizine", <<>>, 50)>>),
      Extraction(FALSE, <<Entity("Paracetamol", <<"6", "m", "g">>, 1),
                          Entity("Cetirizine", <<>>, 2)>>),
      Extraction(FALSE, <<Entity("Zzz", <<>>, 5), Entity("Paracetamol", <<>>, 2)>>),
      Extraction(FALSE, <<Entity("Paracetamol", <<"9", "m", "g">>, 2)>>),
      Extraction(FALSE, <<Entity("Paracetamol", <<"M", "G">>, 2)>>),
      Extraction(FALSE, <<Entity("Cetirizine", <<>>, 2),
                          Entity("Paracetamol", <<"6", "M", "G">>, 1)>>) }

AssemblyOrderTurn ==
    \E e \in AssemblyExtractions :
        Turn("", "P1", <<[tool |-> "extract_order_details", extraction |-> e]>>)

AssemblyConfirmTurn == Turn("", "P1", <<Call("confirm_last_order")>>)

AssemblyNext ==
    \/ AssemblyOrderTurn
    \/ AssemblyConfirmTurn

AssemblySpec == Init /\ [][AssemblyNext]_vars

\* Two sessions ordering the same medicine: each patient starts orders of 2
\* or 5 Paracetamol, within the stock of 8 when the preview is made, and
\* confirms or cancels them
SharedStockExtractions ==
    { Extraction(FALSE, <<Entity("Paracetamol", <<>>, 2)>>),
      Extraction(FALSE, <<Entity("Paracetamol", <<>>, 5)>>) }

SharedStockOrderTurn ==
    \E patient_id \in Patients, e \in SharedStockExtractions :
        Turn("", patient_id, <<[tool |-> "extract_order_details", extraction |-> e]>>)

SharedStockConfirmTurn ==
    \E patient_id \in Patients : Turn("", patient_id, <<Call("confirm_last_order")>>)

SharedStockCancelTurn ==
    \E patient_id \in Patients : Turn("", patient_id, <<Call("cancel_order")>>)

SharedStockNext ==
    \/ SharedStockOrderTurn
    \/ SharedStockConfirmTurn
    \/ SharedStockCancelTurn

SharedStockSpec == Init /\ [][SharedStockNext]_vars

-----------------------------------------------------------------------------
(* The conversation history store of process_message. Nothing reads it but the
   context built for the reasoning service, so the specifications above do not
   follow it; HistorySpec follows it through whole turns of the orchestrator. *)

\* How many messages a stored history is followed up to
MaxHistory == 4

\* dict.get(session_id, []) (l.110)
HistoryOf(histories, session_id) ==
    IF session_id \in DOMAIN histories THEN histories[session_id] ELSE <<>>

\* Lines 107-109: a history the request carries is stored in place of the
\* session's own
LoadHistory(histories, session_id, conversation_history) ==
    IF conversation_history # <<>>
    THEN Put(histories, session_id, conversation_history)
    ELSE histories

\* A store in which a turn's messages are appended to every session's history
UpdateHistoryOfAll(histories, session_id, message, reply) ==
    [k \in DOMAIN histories \cup {session_id} |->
        HistoryOf(histories, k) \o <<[role |-> "user", content |-> message]>>]

\* Lines 197-202: the user message, then the reply if it has a message
UpdateHistory(histories, session_id, message, reply) ==
    LET asked == Append(HistoryOf(histories, session_id),
                        [role |-> "user", content |-> message])
    IN  Put(histories, session_id,
            IF reply.message # ""
            THEN Append(asked, [role |-> "assistant", content |-> reply.message])
            ELSE asked)

\* process_message (l.80-210) with the history store followed; raised is
\* whether the call of the reasoning service raises (l.160-166), which the
\* except clause answers (l.206-210)
process_message_recording(st, req, raised) ==
    LET session_id == SessionKey(req)
        loaded == [st EXCEPT !.conversation_histories =
                      LoadHistory(@, session_id, req.conversation_history)]
        handled == process_message(loaded, req)
    IN  IF req.patient_id \notin Patients
        THEN process_message(st, req)
        ELSE IF raised
        THEN [loaded EXCEPT !.response = Reply("error")]
        ELSE [handled EXCEPT !.conversation_histories =
                 UpdateHistory(@, session_id, req.message, handled.response)]

\* The (session id, patient id) of the requests: a patient with no session
\* id and with one, and an unknown patient
HistoryRequesters == {<<"", "P1">>, <<"P2", "P1">>, <<"", "P9">>}

\* The history a request may carry: none, or one earlier message
ClientHistories == {<<>>, <<[role |-> "user", content |-> "earlier"]>>}

\* One turn of the orchestrator, the history store included
HistoryTurn(tool_calls) ==
    \E r \in HistoryRequesters, h \in ClientHistories, raised \in BOOLEAN :
        LET req == [session_id |-> r[1], patient_id |-> r[2], tool_calls |-> tool_calls,
                    message |-> "message", conversation_history |-> h]
        IN  \E st \in {process_message_recording(Serving, req, raised)} :
            /\ WithinBounds(st)
            /\ \A k \in DOMAIN st.conversation_histories :
                  Len(st.conversation_histories[k]) <= MaxHistory
            /\ Becomes(st)
            /\ request' = [endpoint |-> "chat", session_key |-> SessionKey(req),
                           patient_id |-> req.patient_id,
                           tools |-> [i \in DOMAIN tool_calls |-> tool_calls[i].tool],
                           order_id |-> <<>>]
            /\ UNCHANGED <<api_calls, in_flight>>

HistoryOrderTurn ==
    HistoryTurn(<<[tool |-> "extract_order_details",
                   extraction |-> Extraction(FALSE, <<Entity("Paracetamol", <<>>, 2)>>)]>>)

HistoryConfirmTurn == HistoryTurn(<<Call("confirm_last_order")>>)

HistoryCancelTurn == HistoryTurn(<<Call("cancel_order")>>)

HistoryConversationTurn == HistoryTurn(<<>>)

HistoryNext ==
    \/ HistoryOrderTurn
    \/ HistoryConfirmTurn
    \/ HistoryCancelTurn
    \/ HistoryConversationTurn

HistorySpec == Init /\ [][HistoryNext]_vars

\* The rule evaluator on its own: the arguments of one call of
\* SafetyAgent.evaluate are drawn at the start, and the call is made.
StockLevels == {0, 10, 40}

MaxQuantities == {0, 5, 30}

Quantities == {0, 20, 50}

SafetyMedicines ==
    [medicine_name : {"Paracetamol"}, discontinued : BOOLEAN,
     prescription_required : BOOLEAN, controlled_substance : BOOLEAN,
     stock_level : StockLevels, max_quantity_per_order : MaxQuantities]

\* The second medicine of a call with two
SecondMedicines ==
    [medicine_name : {"Cetirizine"}, discontinued : BOOLEAN,
     prescription_required : {FALSE}, controlled_substance : {FALSE},
     stock_level : {0, 10}, max_quantity_per_order : {0, 30}]

SafetyCall(entities, matched_medicines, has_prescription) ==
    [entities |-> entities, matched_medicines |-> matched_medicines,
     has_prescription |-> has_prescription]

SafetyInputs ==
    {SafetyCall(<<>>, <<>>, FALSE)}
    \cup {SafetyCall(<<>>, <<m>>, h) : m \in SafetyMedicines, h \in BOOLEAN}
    \cup {SafetyCall(<<Entity("Paracetamol", <<>>, q)>>, <<m>>, h) :
            q \in Quantities, m \in SafetyMedicines, h \in BOOLEAN}
    \cup {SafetyCall(<<Entity("Paracetamol", <<>>, q[1]), Entity("Cetirizine", <<>>, q[2])>>,
                     <<m, n>>, h) :
            q \in Quantities \X {0, 20}, m \in SafetyMedicines, n \in SecondMedicines,
            h \in BOOLEAN}

SafetyInit ==
    /\ pending_previews = <<>>
    /\ session_contexts = <<>>
    /\ next_preview = 1
    /\ orders = <<>>
    /\ next_order = 1
    /\ stock = InitialStock
    /\ order_history = <<>>
    /\ background_tasks = <<>>
    /\ api_calls = 0
    /\ safety_log = <<>>
    /\ in_flight = <<>>
    /\ handoff = NoHandoff
    /\ conversation_histories = <<>>
    /\ request \in {[endpoint |-> "safety_evaluate", call |-> c] : c \in SafetyInputs}
    /\ response = Reply("none")

\* safety_agent.evaluate(entities, matched_medicines, has_prescription)
EvaluateCall ==
    /\ request.endpoint = "safety_evaluate"
    /\ safety_log = <<>>
    /\ Becomes(evaluate(State, request.call.entities, request.call.matched_medicines,
                        request.call.has_prescription))
    /\ UNCHANGED <<request, api_calls, in_flight>>

SafetyNext == EvaluateCall

SafetySpec == SafetyInit /\ [][SafetyNext]_vars

\* A medicine of an evaluator call as the catalog search returns it, with the
\* id and strength the preview's items copy
Identified(matched_medicines) ==
    [i \in DOMAIN matched_medicines |->
        [medicine_id |-> matched_medicines[i].medicine_name,
         medicine_name |-> matched_medicines[i].medicine_name,
         strength |-> <<>>,
         prescription_required |-> matched_medicines[i].prescription_required]]

\* Step 4 of _handle_order on the evaluator's result: the items of the
\* preview are built from the arguments of the call and its result, unless
\* the decision is REJECT
BuildItemsCall ==
    /\ request.endpoint = "safety_evaluate"
    /\ safety_log # <<>>
    /\ safety_log[1].result.decision # "REJECT"
    /\ response.message = "none"
    /\ response' = ReplyWith("preview_items",
                             BuildItems(request.call.entities,
                                        Identified(request.call.matched_medicines),
                                        safety_log[1].result))
    /\ UNCHANGED <<pending_previews, session_contexts, next_preview, orders, next_order,
                   stock, order_history, background_tasks, api_calls, safety_log,
                   in_flight, handoff, conversation_histories,
                   request>>

ItemsNext ==
    \/ EvaluateCall
    \/ BuildItemsCall

ItemsSpec == SafetyInit /\ [][ItemsNext]_vars

\* The rule evaluator among the turns of a patient: calls of
\* SafetyAgent.evaluate with arguments of the caller's choice, before, between
\* and after the turns that store previews and commit orders.
PurityInputs ==
    {SafetyCall(<<Entity("Paracetamol", <<>>, 20)>>, <<m>>, h) :
        m \in {x \in SafetyMedicines :
                  ~x.controlled_substance /\ x.max_quantity_per_order = 30},
        h \in BOOLEAN}

EvaluateAgain ==
    \E c \in PurityInputs :
        /\ Becomes(evaluate(Serving, c.entities, c.matched_medicines, c.has_prescription))
        /\ request' = [endpoint |-> "safety_evaluate", call |-> c]
        /\ UNCHANGED <<api_calls, in_flight>>

PurityNext ==
    \/ EvaluateAgain
    \/ LifecycleOrderTurn
    \/ LifecycleConfirmTurn

PuritySpec == Init /\ [][PurityNext]_vars

-----------------------------------------------------------------------------
(* Properties. *)

SessionKeys == {"P1", "P2"}

OrderTools == {"extract_order_details", "place_order"}

\* The last step served a chat turn of a known patient with these tool calls
ChatTurn == request.endpoint = "chat" /\ request.patient_id \in Patients

\* Every tool call of the last turn was the tool t
OnlyTool(t) ==
    /\ ChatTurn
    /\ request.tools # <<>>
    /\ \A i \in DOMAIN request.tools : request.tools[i] = t

\* The preview ids retrievable as pending for session s
PendingOf(s) ==
    {p \in DOMAIN pending_previews :
        s \in DOMAIN session_contexts /\ session_contexts[s] = p}

\* The last turn ended in a successful start-order
StartOrderSucceeded == ChatTurn /\ response.requires_confirmation

\* C1: every session is bound to at most one pending preview id, and a turn
\* that ends in a successful start-order leaves exactly one preview id, the
\* one it minted, retrievable as pending for its session; so after two
\* consecutive start-order turns exactly one is.
C1_AtMostOnePending ==
    /\ \A s \in SessionKeys : Cardinality(PendingOf(s)) <= 1
    /\ DOMAIN session_contexts \subseteq SessionKeys
    /\ StartOrderSucceeded =>
          /\ PendingOf(request.session_key) = {response.order_preview[1]}
          /\ response.order_preview[1] = next_preview - 1

\* Two start-order turns in a row in one session: the first preview is still
\* stored, no session is bound to it, and the session is bound to the second
C1_Witness ==
    /\ StartOrderSucceeded
    /\ request.tools = <<"extract_order_details">>
    /\ response.order_preview = <<2>>
    /\ 1 \in DOMAIN pending_previews
    /\ pending_previews[1].patient_id = pending_previews[2].patient_id
    /\ DOMAIN session_contexts = {request.session_key}

\* C2: every preview held in pending_previews is the active preview of some
\* session (a superseded preview is not left behind in the store).
C2_NoOrphanPreview ==
    \A p \in DOMAIN pending_previews :
        \E s \in DOMAIN session_contexts : session_contexts[s] = p

\* The session's active preview in the current state, <<>> when it has none
Active(s) == ActivePreview(State, s)

\* C3: a confirm turn on a session with an active preview commits exactly one
\* Order, consumes the preview (its id, never minted again, leaves the store)
\* and leaves the session with no pending preview; a session gets an active
\* preview only from a start-order call of its own turn; and a confirm turn
\* on a session with no active preview creates no Order, changes no stock and
\* answers no-pending-order. So after a successful confirm any further confirm
\* without a new start-order is a no-op, and a preview yields at most one Order.
C3_ConfirmStep ==
    /\ \A k \in SessionKeys :
          OnlyTool("confirm_last_order")' /\ request'.session_key = k =>
              IF Active(k) # <<>>
              THEN /\ DOMAIN orders' = DOMAIN orders \cup {next_order}
                   /\ next_order \notin DOMAIN orders
                   /\ Active(k)[1] \notin DOMAIN pending_previews'
                   /\ Active(k)' = <<>>
                   /\ k \notin DOMAIN session_contexts'
                   /\ response'.message =
                         IF Len(request'.tools) = 1 THEN "order_confirmed"
                         ELSE "no_pending_order"
              ELSE /\ orders' = orders
                   /\ stock' = stock
                   /\ response'.message = "no_pending_order"
    /\ \A s \in SessionKeys :
          Active(s) = <<>> /\ Active(s)' # <<>> =>
              /\ ChatTurn'
              /\ request'.session_key = s
              /\ \E i \in DOMAIN request'.tools : request'.tools[i] \in OrderTools
    /\ \A p \in DOMAIN pending_previews' \ DOMAIN pending_previews :
          p >= next_preview

C3_ConfirmIdempotent == [][C3_ConfirmStep]_vars

\* A second confirm turn right after a successful one: one Order exists, the
\* reply is no-pending-order
C3_Witness ==
    /\ OnlyTool("confirm_last_order")
    /\ response.message = "no_pending_order"
    /\ Cardinality(DOMAIN orders) = 1
    /\ pending_previews = <<>>
    /\ next_preview = 2

\* C4: a confirm turn on a session with no active preview answers
\* no-pending-order and changes nothing: no Order, no stock level, no
\* order-history record, and the preview store and session bindings stay.
C4_ConfirmNoPendingStep ==
    \A k \in SessionKeys :
        /\ OnlyTool("confirm_last_order")'
        /\ request'.session_key = k
        /\ Active(k) = <<>>
        => /\ response'.message = "no_pending_order"
           /\ ~response'.requires_confirmation
           /\ response'.order = <<>>
           /\ UNCHANGED <<orders, next_order, stock, order_history, pending_previews,
                          session_contexts, next_preview, background_tasks>>

C4_ConfirmWithoutPending == [][C4_ConfirmNoPendingStep]_vars

\* A confirm turn answered no-pending-order while another session holds a
\* pending preview
C4_Witness ==
    /\ OnlyTool("confirm_last_order")
    /\ Len(request.tools) = 1
    /\ response.message = "no_pending_order"
    /\ Active(request.session_key) = <<>>
    /\ \E s \in SessionKeys : Active(s) # <<>>

\* C5: a cancel turn never errors, leaves its session with no pending preview
\* and removes the session's active preview from the store, so it can no
\* longer be confirmed; cancelling again leaves the preview store and the
\* session bindings exactly as after the first cancel.
C5_CancelStep ==
    \A k \in SessionKeys :
        OnlyTool("cancel_order")' /\ request'.session_key = k =>
            /\ response'.message = "order_cancelled"
            /\ Active(k)' = <<>>
            /\ session_contexts' = Del(session_contexts, k)
            /\ pending_previews' =
                  IF Active(k) # <<>> THEN Del(pending_previews, Active(k)[1])
                  ELSE pending_previews
            /\ UNCHANGED <<orders, stock, order_history>>

C5_CancelTwice ==
    \A k \in SessionKeys, p \in Patients :
        LET once == handle_order_cancellation(State, k)
            twice == handle_order_cancellation(once, k)
            confirm == handle_order_confirmation(once, k, p)
        IN  /\ once.response.message = "order_cancelled"
            /\ twice = once
            /\ Active(k) # <<>> => Active(k)[1] \notin DOMAIN once.pending_previews
            /\ confirm.response.message = "no_pending_order"
            /\ confirm.orders = orders

C5_CancelIdempotent == [][C5_CancelStep]_vars /\ []C5_CancelTwice

\* A cancel turn has discarded the only preview minted so far
C5_Witness ==
    /\ OnlyTool("cancel_order")
    /\ response.message = "order_cancelled"
    /\ next_preview = 2
    /\ pending_previews = <<>>
    /\ session_contexts = <<>>
    /\ orders = <<>>

\* C6: a cancel turn on a session with no pending preview answers that there
\* is nothing to cancel, which is not the reply given when a preview was
\* discarded.
C6_NothingToCancelStep ==
    \A k \in SessionKeys :
        /\ OnlyTool("cancel_order")'
        /\ request'.session_key = k
        /\ Active(k) = <<>>
        => response'.message # "order_cancelled"

C6_NothingToCancel == [][C6_NothingToCancelStep]_vars

\* The status transitions of an event log, in order
StatusEvents(events) == SelectSeq(events, LAMBDA e : e \in OrderStatus)

\* The positions of event e in an event log
Positions(events, e) == {i \in DOMAIN events : events[i] = e}

\* C7: an order committed by the confirmation handler went through VALIDATED,
\* CONFIRMED and PROCESSING in that order, each recorded once and none
\* skipped, and its inventory update is recorded after CONFIRMED and before
\* PROCESSING.
C7_ConfirmationLifecycle ==
    \A o \in DOMAIN orders :
        LET events == orders[o].events
        IN  /\ StatusEvents(events) = <<"PENDING", "VALIDATED", "CONFIRMED", "PROCESSING">>
            /\ orders[o].status = "PROCESSING"
            /\ Cardinality(Positions(events, "INVENTORY_UPDATED")) = 1
            /\ \A i \in Positions(events, "INVENTORY_UPDATED") :
                  /\ \A c \in Positions(events, "CONFIRMED") : c < i
                  /\ \A q \in Positions(events, "PROCESSING") : i < q

\* A confirm turn has just committed an order and reduced the stock
C7_Witness ==
    /\ OnlyTool("confirm_last_order")
    /\ response.message = "order_confirmed"
    /\ response.order[1] \in DOMAIN orders
    /\ stock # InitialStock

\* C10: the total of every stored preview is the sum over its items of unit
\* price times quantity, rounded to 2 decimals, each unit price being the
\* price-table entry of the item's medicine name, or 0.50 when it has none.
C10_PreviewTotal ==
    \A p \in DOMAIN pending_previews :
        LET items == pending_previews[p].items
        IN  /\ items # <<>>
            /\ \A i \in DOMAIN items :
                  items[i].unit_price =
                      IF items[i].medicine_name \in DOMAIN price_map
                      THEN price_map[items[i].medicine_name] ELSE 500
            /\ pending_previews[p].total_amount =
                  Round2(SumSeq([i \in DOMAIN items |->
                                    items[i].unit_price * items[i].quantity]))

\* A stored preview with one item priced from the table and one at the
\* default price
C10_Witness ==
    \E p \in DOMAIN pending_previews :
        LET items == pending_previews[p].items
        IN  /\ Len(items) = 2
            /\ items[1].medicine_name \in DOMAIN price_map
            /\ items[2].medicine_name \notin DOMAIN price_map
            /\ pending_previews[p].total_amount = 2 * 150 + 30 * 500

\* The place of a status in the progression PENDING .. COMPLETED
Progression ==
    <<"PENDING", "VALIDATED", "CONFIRMED", "PROCESSING", "PREPARING", "SHIPPED", "COMPLETED">>

Rank(status) == CHOOSE i \in DOMAIN Progression : Progression[i] = status

\* A change of status that is forward in the progression, or to CANCELLED
ForwardOrCancelled(from, to) ==
    \/ to = "CANCELLED"
    \/ /\ from # "CANCELLED"
       /\ Rank(from) < Rank(to)

\* C8: whatever operations change an order's status, each recorded change is
\* forward in the progression PENDING .. COMPLETED, or is to CANCELLED.
C8_StatusNeverRegresses ==
    \A o \in DOMAIN orders :
        LET log == StatusEvents(orders[o].events)
        IN  \A i \in 1..(Len(log) - 1) : ForwardOrCancelled(log[i], log[i + 1])

\* The order store with order o put in the given status
WithStatus(o, status) ==
    IF o \in DOMAIN orders THEN [State EXCEPT !.orders[o].status = status] ELSE State

\* C9: cancel_order moves an order to CANCELLED from every status but
\* COMPLETED and CANCELLED; from those two it fails with an invalid-transition
\* error and the status stays; for an unknown order id it fails with
\* not-found and changes nothing. (Checked for every order id a client may
\* name, with the order put in each status in turn, and on the requests the
\* endpoint has served.)
C9_CancelOrder ==
    /\ \A o \in OrderIds, status \in OrderStatus :
          LET before == WithStatus(o, status)
              after == cancel_order(before, o)
          IN  IF o \notin DOMAIN orders
              THEN /\ after.response.message = "http_404_order_not_found"
                   /\ [after EXCEPT !.response = before.response] = before
              ELSE IF status \in {"COMPLETED", "CANCELLED"}
              THEN /\ after.response.message = "http_400_cannot_cancel"
                   /\ [after EXCEPT !.response = before.response] = before
              ELSE /\ after.response.message = "cancelled"
                   /\ after.orders[o].status = "CANCELLED"
                   /\ after.orders[o].events = Append(before.orders[o].events, "CANCELLED")
                   /\ \A x \in DOMAIN orders \ {o} : after.orders[x] = orders[x]
                   /\ after.stock = stock
    /\ request.endpoint = "cancel_order" =>
          LET o == request.order_id[1]
          IN  CASE response.message = "cancelled" ->
                      o \in DOMAIN orders /\ orders[o].status = "CANCELLED"
                [] response.message = "http_400_cannot_cancel" ->
                      o \in DOMAIN orders /\ orders[o].status \in {"COMPLETED", "CANCELLED"}
                [] response.message = "http_404_order_not_found" ->
                      o \notin DOMAIN orders
                [] OTHER -> FALSE

\* A cancel request refused because the order, cancelled by an earlier
\* request, is already CANCELLED
C9_Witness ==
    /\ request.endpoint = "cancel_order"
    /\ response.message = "http_400_cannot_cancel"
    /\ orders[request.order_id[1]].status = "CANCELLED"
    /\ orders[request.order_id[1]].events[Len(orders[request.order_id[1]].events)]
          = "CANCELLED"

\* What _handle_order would do now for session k, patient p and extraction e
OrderOutcome(k, p, e) == handle_order(Serving, k, p, e)

\* The stores a preview lives in are those of the current state
SamePreviewStores(st) ==
    /\ st.pending_previews = pending_previews
    /\ st.session_contexts = session_contexts
    /\ st.next_preview = next_preview

\* Nothing is committed: orders, stock and order history are those of the
\* current state
NothingCommitted(st) ==
    /\ st.orders = orders
    /\ st.next_order = next_order
    /\ st.stock = stock
    /\ st.order_history = order_history
    /\ st.background_tasks = background_tasks

\* C11: in every reachable state, for every session, patient and extraction,
\* a run of the order pipeline that succeeds (the evaluator ran and did not
\* reject) stores a new preview bound to the session and returns
\* requires_confirmation = TRUE with that preview and no order; it creates
\* no order, changes no stock and adds no order-history record; and a run
\* that does not succeed does not ask for confirmation.
C11_PipelineNeverCommits ==
    \A k \in SessionKeys, p \in Patients, e \in ExtractionResults :
        LET after == OrderOutcome(k, p, e)
            succeeded == /\ after.safety_log # <<>>
                         /\ after.safety_log[1].result.decision # "REJECT"
        IN  /\ NothingCommitted(after)
            /\ after.response.order = <<>>
            /\ after.response.requires_confirmation <=> succeeded
            /\ succeeded =>
                  /\ after.response.order_preview = <<next_preview>>
                  /\ next_preview \notin DOMAIN pending_previews
                  /\ next_preview \in DOMAIN after.pending_previews
                  /\ after.pending_previews[next_preview].patient_id = p
                  /\ after.session_contexts[k] = next_preview
                  /\ after.next_preview = next_preview + 1

\* A start-order turn has stored a preview after an order had been committed:
\* the order and the reduced stock are as the commit left them
C11_Witness ==
    /\ StartOrderSucceeded
    /\ request.tools = <<"place_order">>
    /\ response.order_preview[1] \in DOMAIN pending_previews
    /\ DOMAIN orders = {1}
    /\ orders[1].status = "PROCESSING"
    /\ stock["M1"] = LowStock - 2

\* C12: in every reachable state, a run of the order pipeline in which the
\* evaluator returns REJECT answers with the rejection reply carrying the
\* evaluator's reasons, does not ask for confirmation and returns no preview;
\* the preview store and the session bindings stay as they are; and the
\* rejection reply is given in no other case.
C12_RejectCreatesNoPreview ==
    \A k \in SessionKeys, p \in Patients, e \in ExtractionResults :
        LET after == OrderOutcome(k, p, e)
            rejected == /\ after.safety_log # <<>>
                        /\ after.safety_log[1].result.decision = "REJECT"
        IN  /\ rejected <=> after.response.message = "rejected"
            /\ rejected =>
                  /\ after.response.detail = after.safety_log[1].result.reasons
                  /\ after.response.detail # <<>>
                  /\ ~after.response.requires_confirmation
                  /\ after.response.order_preview = <<>>
                  /\ SamePreviewStores(after)
                  /\ NothingCommitted(after)

\* A start-order turn was rejected for a discontinued medicine while the
\* session held a pending preview, which it still holds
C12_Witness ==
    /\ OnlyTool("extract_order_details")
    /\ response.message = "rejected"
    /\ response.detail = <<<<"discontinued", "Paracetamol">>>>
    /\ Active(request.session_key) # <<>>
    /\ Len(safety_log) = 1

\* No entity of the extraction has a catalog result
AllDropped(e) ==
    /\ e.entities # <<>>
    /\ \A i \in DOMAIN e.entities : search_medicine(stock, e.entities[i].medicine) = <<>>

\* C13: in every reachable state, a run of the order pipeline whose
\* extraction needs clarification, has no entities, or has every entity
\* dropped for lack of catalog results answers with the clarification reply,
\* the no-medications reply or the medicine-not-found reply naming the first
\* entity; the evaluator is not run; no preview is created, and the preview
\* store and session bindings stay as they are.
C13_EarlyTermination ==
    \A k \in SessionKeys, p \in Patients, e \in ExtractionResults :
        LET after == OrderOutcome(k, p, e)
        IN  e.needs_clarification \/ e.entities = <<>> \/ AllDropped(e) =>
                /\ after.response.message =
                      IF e.needs_clarification THEN "clarification"
                      ELSE IF e.entities = <<>> THEN "no_medications"
                      ELSE "medicine_not_found"
                /\ after.response.detail =
                      IF ~e.needs_clarification /\ e.entities # <<>>
                      THEN <<e.entities[1].medicine>> ELSE <<>>
                /\ ~after.response.requires_confirmation
                /\ after.response.order_preview = <<>>
                /\ after.safety_log = <<>>
                /\ SamePreviewStores(after)
                /\ NothingCommitted(after)

\* A start-order turn answered medicine-not-found, naming the first of two
\* unknown medicines, while the session held a pending preview
C13_Witness ==
    /\ OnlyTool("extract_order_details")
    /\ response.message = "medicine_not_found"
    /\ response.detail = <<"Unknown">>
    /\ safety_log = <<>>
    /\ Active(request.session_key) # <<>>

\* The evaluator call that was made, when the last request was one call of it
Evaluated == request.endpoint = "safety_evaluate" /\ safety_log # <<>>

\* Matched medicine m is blocked: discontinued, or out of stock
Blocked(m) == m.discontinued \/ m.stock_level = 0

\* C14: for every non-empty list of matched items the evaluator returns
\* REJECT if and only if every item is blocked, and blocked_items names, in
\* order, exactly the items that are discontinued or have stock 0.
C14_RejectIffAllBlocked ==
    Evaluated =>
        LET call == safety_log[1]
            meds == call.matched_medicines
            blocked == SelectSeq(meds, Blocked)
        IN  meds # <<>> =>
              /\ call.result.decision = "REJECT" <=> \A i \in DOMAIN meds : Blocked(meds[i])
              /\ call.result.blocked_items =
                    [i \in DOMAIN blocked |-> blocked[i].medicine_name]

\* Two matched items, the first discontinued and the second out of stock,
\* were rejected
C14_Witness ==
    /\ Evaluated
    /\ Len(safety_log[1].matched_medicines) = 2
    /\ safety_log[1].matched_medicines[1].discontinued
    /\ ~safety_log[1].matched_medicines[2].discontinued
    /\ safety_log[1].matched_medicines[2].stock_level = 0
    /\ safety_log[1].result.decision = "REJECT"
    /\ safety_log[1].result.blocked_items = <<"Paracetamol", "Cetirizine">>

\* C15: when not every matched item is blocked, the evaluator returns
\* CONDITIONAL if blocked_items is non-empty, or a prescription is required
\* and none is on file, or requires_followup is set, or an allowed_quantity
\* cap was imposed (whatever its value, 0 included), and APPROVE otherwise;
\* every result carries a reason, and an APPROVE with no accumulated reason
\* carries exactly the all-checks-passed reason.
C15_ConditionalOrApprove ==
    Evaluated =>
        LET call == safety_log[1]
            meds == call.matched_medicines
            result == call.result
            accumulated == SafetyLoop(SafetyStart, call.entities, meds, 1,
                                      call.has_prescription).reasons
        IN  /\ ~(\A i \in DOMAIN meds : Blocked(meds[i])) =>
                  result.decision =
                      IF \/ result.blocked_items # <<>>
                         \/ (result.requires_prescription /\ ~call.has_prescription)
                         \/ result.requires_followup
                         \/ result.allowed_quantity # <<>>
                      THEN "CONDITIONAL" ELSE "APPROVE"
            /\ result.reasons # <<>>
            /\ result.decision = "APPROVE" /\ accumulated = <<>> =>
                  result.reasons = <<<<"all_checks_passed">>>>

\* The quantity the evaluator takes as requested for matched item 1
RequestedQuantity(call) ==
    IF call.entities # <<>> /\ call.entities[1].quantity > 0
    THEN call.entities[1].quantity ELSE DefaultQuantity

\* C16: for a single matched item that is not discontinued and whose stock
\* is positive and lower than the requested quantity, the evaluator returns
\* CONDITIONAL with allowed_quantity = min(stock_level,
\* max_quantity_per_order) and a reason that mentions the cap.
C16_LimitedStockIsConditional ==
    Evaluated =>
        LET call == safety_log[1]
            meds == call.matched_medicines
            result == call.result
        IN  /\ Len(meds) = 1
            /\ ~meds[1].discontinued
            /\ meds[1].stock_level > 0
            /\ meds[1].stock_level < RequestedQuantity(call)
            => LET cap == Min(meds[1].stock_level, meds[1].max_quantity_per_order)
               IN  /\ result.decision = "CONDITIONAL"
                   /\ result.allowed_quantity = <<cap>>
                   /\ \E i \in DOMAIN result.reasons :
                         result.reasons[i] = <<"limited_stock", meds[1].medicine_name, cap>>

\* C17: across every step (a turn that stores a preview, a confirmation that
\* commits an order and reduces stock, another evaluation) the evaluator
\* gives the same result for the same arguments; every evaluation logged,
\* the order pipeline's own included, has the result the arguments alone
\* determine; and a call of the evaluator changes no session binding,
\* preview, order, stock level or order-history record.
C17_PureStep ==
    /\ \A c \in PurityInputs :
          perform_safety_checks(c.entities, c.matched_medicines, c.has_prescription)'
            = perform_safety_checks(c.entities, c.matched_medicines, c.has_prescription)
    /\ \A i \in DOMAIN safety_log' :
          safety_log'[i].result =
              perform_safety_checks(safety_log'[i].entities,
                                    safety_log'[i].matched_medicines,
                                    safety_log'[i].has_prescription)
    /\ request'.endpoint = "safety_evaluate" =>
          /\ Len(safety_log') = 1
          /\ safety_log'[1].entities = request'.call.entities
          /\ safety_log'[1].matched_medicines = request'.call.matched_medicines
          /\ safety_log'[1].has_prescription = request'.call.has_prescription
          /\ UNCHANGED <<pending_previews, session_contexts, next_preview, orders,
                         next_order, stock, order_history, background_tasks, response>>

QuantityIn(items, m) ==
    SumSeq([i \in DOMAIN items |->
               IF items[i].medicine_id = m THEN items[i].quantity ELSE 0])

\* The quantity of medicine m in the orders 1 .. n
RECURSIVE OrderedUpTo(_, _)
OrderedUpTo(m, n) ==
    IF n = 0 THEN 0
    ELSE OrderedUpTo(m, n - 1)
         + (IF n \in DOMAIN orders THEN QuantityIn(orders[n].items, m) ELSE 0)

\* C18: whatever operations follow the confirmation that committed an order
\* (POST confirm, POST cancel, webhooks), the stock of every medicine is its
\* initial level less the quantity of it in the committed orders: each
\* order item is subtracted once, never twice and never not at all.
C18_StockDecrementedOnce ==
    \A m \in MedicineIds :
        stock[m] = InitialStock[m] - OrderedUpTo(m, next_order - 1)

\* A step that runs a turn in flight: a confirm turn for a session with an
\* active preview commits one order holding that preview's items and removes
\* the preview; with no active preview it answers no-pending-order and
\* commits nothing; no turn ends in the error reply
C19_Step ==
    Len(in_flight') < Len(in_flight) =>
    /\ response'.message # "error"
    /\ \A k \in SessionKeys :
          OnlyTool("confirm_last_order")' /\ request'.session_key = k =>
              IF Active(k) # <<>>
              THEN /\ DOMAIN orders' = DOMAIN orders \cup {next_order}
                   /\ next_order \notin DOMAIN orders
                   /\ orders'[next_order].items = pending_previews[Active(k)[1]].items
                   /\ Active(k)[1] \notin DOMAIN pending_previews'
                   /\ response'.message = "order_confirmed"
              ELSE /\ orders' = orders
                   /\ stock' = stock
                   /\ response'.message = "no_pending_order"

\* Every order consumed a preview of its own: orders and stored previews
\* together never outnumber the previews minted
C19_OneOrderPerPreview ==
    Cardinality(DOMAIN orders) + Cardinality(DOMAIN pending_previews) <= next_preview - 1

C20_FailedTurnMutatesNothing ==
    [][response'.message = "error" =>
          UNCHANGED <<orders, stock, order_history,
                      pending_previews, session_contexts>>]_vars

\* A step of the router: a turn opened by a NEEDS_INFO or REJECTED decision is
\* over at once, answered with the decision's message, with no collaborator
\* invoked; a collaborator's REJECTED ends the turn with the rejection as the
\* reply; and a turn that is over is followed only by a new turn
C21_Step ==
    /\ handoff.stage # "chain" /\ handoff'.initial \in {"NEEDS_INFO", "REJECTED"} =>
          /\ handoff'.stage = "done"
          /\ handoff'.invoked = {}
          /\ response'.message = "decision_message"
          /\ response'.detail = <<handoff'.initial>>
          /\ orders' = orders
    /\ handoff.stage = "chain" /\ handoff'.rejected_by # <<>> =>
          /\ handoff'.stage = "done"
          /\ handoff'.invoked = handoff.invoked \cup {handoff.next_agent}
          /\ handoff'.rejected_by = <<handoff.next_agent>>
          /\ response'.message \in {"cannot_fulfill", "safety_check_failed", "refill_status"}
          /\ response'.order = <<>>
          /\ orders' = orders
    /\ handoff.stage = "done" => handoff'.hops = 0

\* A turn in which a decision was REJECTED or NEEDS_INFO is over and has
\* created no order
C21_TerminalTurn ==
    handoff.rejected_by # <<>> \/ handoff.initial \in {"NEEDS_INFO", "REJECTED"} =>
        /\ handoff.stage = "done"
        /\ DOMAIN orders = handoff.orders_before

\* C21: in the decision router a turn whose initial decision is NEEDS_INFO or
\* REJECTED ends at once with the decision's message and invokes no
\* collaborator; when a collaborator of the chain answers REJECTED the
\* rejection is the reply, no further collaborator is invoked and no order is
\* created in that turn.
C21_TerminalDecisionsEndTurn == [][C21_Step]_vars /\ []C21_TerminalTurn

\* The policy agent rejected after the inventory agent had approved, in a
\* turn that followed one which placed an order
C21_Witness ==
    /\ handoff.rejected_by = <<"PolicyAgent">>
    /\ handoff.invoked = {"InventoryAgent", "PolicyAgent"}
    /\ response.message = "safety_check_failed"
    /\ orders # <<>>

\* C22: the collaborators invoked in one turn never outnumber the named
\* collaborators, whatever next agent each decision names.
C22_ChainBounded == handoff.hops <= Cardinality(NamedCollaborators)

\* The medications of a history that have a purchase date
Dated(history) == SelectSeq(history, LAMBDA med : med.purchase_date # <<>>)

\* C23: the deterministic fallback answers, for each medication with a
\* purchase date and in their order, days_remaining = max(0, supply_days -
\* days since purchase), never negative, action REMIND when days_remaining
\* is at most 5 and NONE otherwise, and confidence 1.0; 30 days of supply bought
\* 25 days ago gives 5 days remaining and REMIND.
C23_FallbackCalculation ==
    response.message = "refill_fallback" =>
        LET dated == Dated(request.history)
            result == response.detail
        IN  /\ Len(result) = Len(dated)
            /\ \A i \in DOMAIN result :
                  LET supply == IF dated[i].supply_days = <<>> THEN 30
                                ELSE dated[i].supply_days[1]
                      since == request.now - dated[i].purchase_date[1]
                  IN  /\ result[i].days_remaining >= 0
                      /\ result[i].days_remaining =
                            (IF supply - since > 0 THEN supply - since ELSE 0)
                      /\ result[i].action = "REMIND" <=> result[i].days_remaining <= 5
                      /\ result[i].action = "NONE" <=> result[i].days_remaining > 5
                      /\ result[i].confidence = 100
                      /\ (supply = 30 /\ since = 25) =>
                            result[i].days_remaining = 5 /\ result[i].action = "REMIND"

\* The fallback was applied to a history of two medications: 30 days of supply
\* bought 26 days ago and 30 days bought 25 days ago
C23_Witness ==
    /\ response.message = "refill_fallback"
    /\ Len(response.detail) = 2
    /\ response.detail[1].days_remaining = 4
    /\ response.detail[2].days_remaining = 5
    /\ response.detail[2].action = "REMIND"

C25_Step ==
    \A k \in SessionKeys :
        /\ OnlyTool("confirm_last_order")'
        /\ request'.session_key = k
        /\ response'.message = "order_confirmed"
        => LET preview == pending_previews[Active(k)[1]]
               totals == response'.detail[1]
           IN  /\ Active(k) # <<>>
               /\ orders'[response'.order[1]].total_amount = preview.total_amount
               /\ totals.subtotal = preview.total_amount * 1000
               /\ totals.tax * 100 = totals.subtotal * 5
               /\ totals.delivery = 2000000
               /\ totals.grand_total = totals.subtotal + totals.tax + totals.delivery
               /\ (Len(preview.items) = 1 /\ preview.items[1].quantity = 2
                   /\ preview.items[1].unit_price = 150)
                  => totals.subtotal = 300000 /\ totals.grand_total = 2315000

\* C25: the grand total of the confirmation message is the subtotal plus 5% of
\* it plus the delivery fee of 2.00, the subtotal being the total of the
\* preview that is confirmed, which is also the total of the committed order;
\* Paracetamol x2 at 0.15 gives 0.30 and 2.315.
C25_GrandTotal == [][C25_Step]_vars

\* The preview of Paracetamol x2 at 0.15 has been confirmed
C25_Witness ==
    /\ OnlyTool("confirm_last_order")
    /\ response.message = "order_confirmed"
    /\ response.detail[1].subtotal = 300000
    /\ response.detail[1].grand_total = 2315000
    /\ orders[response.order[1]].total_amount = 300

\* C26: an order whose status is COMPLETED or CANCELLED keeps that status
\* through every later operation.
C26_TerminalStatusKept ==
    [][\A o \in DOMAIN orders :
          orders[o].status \in {"COMPLETED", "CANCELLED"} =>
              o \in DOMAIN orders' /\ orders'[o].status = orders[o].status]_vars

\* C27: every order committed in a turn holds the items of the preview that
\* was the session's active one before the turn began, and that preview is
\* gone after it: no turn commits a preview it has created itself.
C27_NoCommitInPreviewTurn ==
    [][\A o \in DOMAIN orders' \ DOMAIN orders :
          \E k \in SessionKeys :
              /\ request'.session_key = k
              /\ Active(k) # <<>>
              /\ Active(k)[1] \notin DOMAIN pending_previews'
              /\ orders'[o].items = pending_previews[Active(k)[1]].items]_vars

\* The previews a step stores
NewPreviews == DOMAIN pending_previews' \ DOMAIN pending_previews

\* The catalog's entry of a medicine id
CatalogEntry(medicine_id) ==
    Catalog[CHOOSE i \in DOMAIN Catalog : Catalog[i].medicine_id = medicine_id]

\* C28: in every preview a start-order turn stores, each item's quantity is
\* above 0 and at most the stock level and the maximum quantity per order of
\* the item's own medicine, as they are when the preview is made.
C28_QuantityWithinLimits ==
    [][\A p \in NewPreviews :
          \A i \in DOMAIN pending_previews'[p].items :
              LET item == pending_previews'[p].items[i]
              IN  /\ item.quantity > 0
                  /\ item.quantity <= stock[item.medicine_id]
                  /\ item.quantity <= CatalogEntry(item.medicine_id).max_quantity_per_order]_vars

\* C29: no preview a start-order turn stores holds an item whose medicine is
\* discontinued or out of stock when the preview is made.
C29_NoBlockedItemInPreview ==
    [][\A p \in NewPreviews :
          \A i \in DOMAIN pending_previews'[p].items :
              LET item == pending_previews'[p].items[i]
              IN  /\ ~CatalogEntry(item.medicine_id).discontinued
                  /\ stock[item.medicine_id] # 0]_vars

\* The entities whose catalog search gives a medicine, in their order
Originating(entities) ==
    SelectSeq(entities, LAMBDA e : search_medicine(stock, e.medicine) # <<>>)

\* The quantity an entity asks for
Requested(entity) == IF entity.quantity > 0 THEN entity.quantity ELSE DefaultQuantity

\* C30: a stored preview has one item per matched medicine, in their order,
\* and each item's quantity is the one asked for by the entity whose catalog
\* search gave its medicine (or less, when the evaluator set a cap).
C30_ItemPairedWithItsEntity ==
    [][\A p \in NewPreviews :
          LET call == safety_log'[Len(safety_log')]
              items == pending_previews'[p].items
              origin == Originating(call.entities)
          IN  /\ Len(items) = Len(call.matched_medicines)
              /\ \A i \in DOMAIN items :
                    /\ items[i].medicine_id = call.matched_medicines[i].medicine_id
                    /\ items[i].quantity <= Requested(origin[i])
                    /\ ~Truthy(call.result.allowed_quantity) =>
                          items[i].quantity = Requested(origin[i])]_vars

\* C31: each item of a preview has the quantity its entity asks for (30 when
\* that is not above 0), and whenever the evaluator's result carries an
\* allowed quantity, whatever its value, the minimum of the two.
C31_QuantityResolution ==
    response.message = "preview_items" =>
        \A i \in DOMAIN response.detail :
            LET asked == Requested(request.call.entities[i])
                cap == safety_log[1].result.allowed_quantity
            IN  response.detail[i].quantity =
                    (IF cap # <<>> THEN Min(asked, cap[1]) ELSE asked)

\* The accumulator of the evaluator's loop before matched medicine i of a call
AccBefore(call, i) ==
    SafetyLoop(SafetyStart, call.entities, SubSeq(call.matched_medicines, 1, i - 1), 1,
               call.has_prescription)

\* The accumulator after matched medicine i
AccAfter(call, i) ==
    SafetyStep(AccBefore(call, i), call.entities, call.matched_medicines[i], i,
               call.has_prescription)

\* The reasons matched medicine i adds
ReasonsAdded(call, i) ==
    SubSeq(AccAfter(call, i).reasons, Len(AccBefore(call, i).reasons) + 1,
           Len(AccAfter(call, i).reasons))

\* C32: a discontinued medicine adds its name to the blocked items and one
\* reason, and leaves requires_prescription, requires_followup and the
\* allowed quantity as they were; a medicine out of stock is blocked and adds
\* neither an allowed quantity nor a reason about a quantity limit.
C32_BlockedSkipsChecks ==
    \A n \in DOMAIN safety_log :
        LET call == safety_log[n]
        IN  /\ call.result.reasons =
                  (IF call.result.decision = "APPROVE"
                      /\ AccBefore(call, Len(call.matched_medicines) + 1).reasons = <<>>
                   THEN <<<<"all_checks_passed">>>>
                   ELSE AccBefore(call, Len(call.matched_medicines) + 1).reasons)
            /\ call.result.blocked_items =
                  AccBefore(call, Len(call.matched_medicines) + 1).blocked_items
            /\ \A i \in DOMAIN call.matched_medicines :
                  LET med == call.matched_medicines[i]
                      before == AccBefore(call, i)
                      after == AccAfter(call, i)
                  IN  /\ med.discontinued =>
                            /\ after.blocked_items = Append(before.blocked_items, med.medicine_name)
                            /\ Len(ReasonsAdded(call, i)) = 1
                            /\ after.requires_prescription = before.requires_prescription
                            /\ after.requires_followup = before.requires_followup
                            /\ after.allowed_quantity = before.allowed_quantity
                      /\ (~med.discontinued /\ med.stock_level = 0) =>
                            /\ after.blocked_items = Append(before.blocked_items, med.medicine_name)
                            /\ after.allowed_quantity = before.allowed_quantity
                            /\ \A r \in DOMAIN ReasonsAdded(call, i) :
                                  ReasonsAdded(call, i)[r][1] \notin {"limited_stock", "max_quantity"}

\* The evaluator was called with a discontinued medicine that needs a
\* prescription and is asked for above its maximum, and with a second
\* medicine that is out of stock; both are blocked and no cap was set
C32_Witness ==
    /\ safety_log # <<>>
    /\ Len(safety_log[1].matched_medicines) = 2
    /\ safety_log[1].matched_medicines[1].discontinued
    /\ safety_log[1].matched_medicines[1].prescription_required
    /\ ~safety_log[1].matched_medicines[2].discontinued
    /\ safety_log[1].matched_medicines[2].stock_level = 0
    /\ Len(safety_log[1].result.blocked_items) = 2
    /\ safety_log[1].result.allowed_quantity = <<>>
    /\ ~safety_log[1].result.requires_prescription

\* Whether a search result fits an entity: no dosage was given, or the
\* result's strength contains the dosage, letter case apart
Fits(entity, result) ==
    entity.dosage = <<>> \/ IsSubstring(Lower(entity.dosage), Lower(result.strength))

\* C33: after a start-order turn that reached the evaluator, the matched
\* medicines are one per entity whose catalog search has results, in their
\* order: the first result that fits the entity's dosage, and the first
\* result of the search when none fits.
C33_CatalogMatching ==
    OnlyTool("extract_order_details") /\ safety_log # <<>> =>
        LET call == safety_log[1]
            origin == Originating(call.entities)
        IN  /\ Len(call.matched_medicines) = Len(origin)
            /\ \A i \in DOMAIN origin :
                  LET results == search_medicine(stock, origin[i].medicine)
                  IN  \E j \in DOMAIN results :
                          /\ call.matched_medicines[i] = results[j]
                          /\ IF \E k \in DOMAIN results : Fits(origin[i], results[k])
                             THEN /\ Fits(origin[i], results[j])
                                  /\ \A k \in 1..(j - 1) : ~Fits(origin[i], results[k])
                             ELSE j = 1

\* Two entities were matched: Cetirizine with no dosage, and Paracetamol
\* "6MG", for which the second result of the search was taken
C33_Witness ==
    /\ OnlyTool("extract_order_details")
    /\ safety_log # <<>>
    /\ Len(safety_log[1].matched_medicines) = 2
    /\ safety_log[1].entities[2].dosage = <<"6", "M", "G">>
    /\ safety_log[1].matched_medicines[2].medicine_id = "M2"
    /\ safety_log[1].matched_medicines[1].medicine_id = "M3"

\* C34: the stock level of no medicine is ever below 0.
C34_StockNeverNegative == \A m \in MedicineIds : stock[m] >= 0

\* A hop of the chain by InventoryAgent or PolicyAgent, after which the turn
\* goes on with the collaborator's decision as the current one
HopFollowed ==
    /\ handoff.stage = "chain"
    /\ handoff.next_agent \in {"InventoryAgent", "PolicyAgent"}
    /\ handoff'.hops = handoff.hops + 1
    /\ handoff'.rejected_by = <<>>

\* The keys and values parse_evidence leaves in the map are trimmed, and the
\* keys are in lower case
Trimmed(extracted_data) ==
    \A k \in DOMAIN extracted_data :
        /\ k = Lower(Strip(k))
        /\ extracted_data[k] = Strip(extracted_data[k])

C35_Step ==
    HopFollowed =>
        /\ Trimmed(handoff'.extracted_data)
        /\ DOMAIN handoff.extracted_data \subseteq DOMAIN handoff'.extracted_data
        /\ DOMAIN parse_evidence(handoff'.current_evidence)
              \subseteq DOMAIN handoff'.extracted_data

\* C35: after each hop of the chain by InventoryAgent or PolicyAgent, the
\* router's evidence map holds trimmed lower-case keys and trimmed values,
\* keeps every key it had before the hop, and has every key of the evidence of
\* the decision the hop returned.
C35_EvidenceMergedAcrossHops == [][C35_Step]_vars

\* A quantity string with one trailing "x" stripped
WithoutTrailingX(s) ==
    IF s # <<>> /\ s[Len(s)] = "x" THEN SubSeq(s, 1, Len(s) - 1) ELSE s

\* The quantity a tolerant parse resolves the evidence map to: the number the
\* quantity string holds once a trailing "x" is stripped, the default
\* quantity when there is none or it is no number
TolerantQuantity(extracted_data) ==
    IF QuantityKey \in DOMAIN extracted_data
       /\ IsDigit(WithoutTrailingX(extracted_data[QuantityKey]))
    THEN ToInt(WithoutTrailingX(extracted_data[QuantityKey]))
    ELSE DefaultQuantity

C36_Step ==
    /\ handoff.stage = "chain"
    /\ handoff.next_agent \in {"InventoryAgent", "PolicyAgent", "FulfillmentAgent"}
    /\ handoff' # handoff
    => /\ response'.message # "internal_server_error"
       /\ handoff'.qty = <<TolerantQuantity(handoff.extracted_data)>>

\* C36: on every hop to InventoryAgent, PolicyAgent or FulfillmentAgent the
\* turn is not failed by the quantity string of the merged evidence, and the
\* hop resolves the evidence to the same quantity whichever of the three it
\* is: the number left once a trailing "x" is stripped, the default quantity
\* when the string is no number or there is none.
C36_TolerantQuantityOnEveryHop == [][C36_Step]_vars

C37_Step ==
    \A k \in SessionKeys :
        OnlyTool("confirm_last_order")' /\ request'.session_key = k /\ Active(k) # <<>> =>
            \A o \in DOMAIN orders' \ DOMAIN orders :
                orders'[o].patient_id = pending_previews[Active(k)[1]].patient_id

\* C37: the Order a confirm turn commits has the patient id recorded in the
\* preview the turn confirms, whatever patient id the confirm request carries.
C37_OrderBelongsToPreviewPatient == [][C37_Step]_vars

\* The turn just served made one call, of start-order, confirm or cancel
OrderingTurn ==
    \/ OnlyTool("extract_order_details")
    \/ OnlyTool("confirm_last_order")
    \/ OnlyTool("cancel_order")

\* Session j has the same pending preview binding, the same stored preview
\* and the same conversation history after the step as before it
SessionKept(j) ==
    /\ j \in DOMAIN session_contexts' <=> j \in DOMAIN session_contexts
    /\ j \in DOMAIN session_contexts =>
          /\ session_contexts'[j] = session_contexts[j]
          /\ session_contexts[j] \in DOMAIN pending_previews =>
                /\ session_contexts[j] \in DOMAIN pending_previews'
                /\ pending_previews'[session_contexts[j]]
                      = pending_previews[session_contexts[j]]
    /\ j \in DOMAIN conversation_histories' <=> j \in DOMAIN conversation_histories
    /\ HistoryOf(conversation_histories', j) = HistoryOf(conversation_histories, j)

C38_Step ==
    \A k \in SessionKeys :
        OrderingTurn' /\ request'.session_key = k =>
            \A j \in SessionKeys \ {k} : SessionKept(j)

\* C38: a start-order, confirm or cancel turn in the session of one key
\* leaves the pending preview binding, the stored preview and the
\* conversation history of every session of another key as they were.
C38_SessionsIndependent == [][C38_Step]_vars

\* Session P2 has confirmed its order while session P1 holds a pending
\* preview and a history of its own
C38_Witness ==
    /\ OnlyTool("confirm_last_order")
    /\ request.session_key = "P2"
    /\ response.message = "order_confirmed"
    /\ Active("P1") # <<>>
    /\ HistoryOf(conversation_histories, "P1") # <<>>
    /\ Len(HistoryOf(conversation_histories, "P2")) = 4

\* The turn just served ran to its end: the patient was found and nothing
\* was raised
TurnCompleted == ChatTurn /\ response.message \notin {"error", "patient_not_found"}

C39_Step ==
    /\ \A k \in DOMAIN conversation_histories :
          /\ k \in DOMAIN conversation_histories'
          /\ Len(conversation_histories'[k]) >= Len(conversation_histories[k])
          /\ SubSeq(conversation_histories'[k], 1, Len(conversation_histories[k]))
                = conversation_histories[k]
    /\ TurnCompleted' =>
          LET new == HistoryOf(conversation_histories', request'.session_key)
              old == HistoryOf(conversation_histories, request'.session_key)
          IN  /\ Len(new) >= Len(old) + 2
              /\ new[Len(new) - 1] = [role |-> "user", content |-> "message"]
              /\ new[Len(new)] = [role |-> "assistant", content |-> response'.message]

\* C39: every turn leaves each stored history as a prefix of what is stored
\* after it, and a turn that ran to its end has made the history of its
\* session longer by at least the user message and then the reply, which are
\* its last two entries, whether or not the request carried a history of its
\* own.
C39_HistoryOnlyGrows == [][C39_Step]_vars

====
